---- MODULE Spec2Model ----
(***************************************************************************)
(* Model of the markdown -> Google Docs request compiler                   *)
(* (src/markdown-transformer/markdownToDocsRequests.ts).                   *)
(*                                                                         *)
(* One call of convertMarkdownToRequests is a run of the state machine:    *)
(* the ConversionContext is the state, every token handed to processToken  *)
(* is one step, finalizeFormatting and the return are the last step.       *)
(* Texts are sequences of one-character strings, so that lengths, the      *)
(* endsWith tests and the task-prefix regular expression are computed.     *)
(***************************************************************************)
EXTENDS Integers, Sequences, FiniteSets, TLC

VARIABLES
    markdown,         \* the markdown argument of the call
    context,          \* the ConversionContext of the call
    startIndex,       \* the startIndex argument of the call
    pc,               \* "call": called; "run": in the token loop; "done": returned;
                      \* "threw": raised
    result,           \* the returned request list (<<>> until the call returns)
    mergedListRanges, \* finalizeFormatting's local of that name, as last computed
    outsideInserts,   \* indexes of the inserts made by tokens met with no list item open
    closedHeadings,   \* levels of the headings recorded by handleHeadingClose, in order
    nesting,          \* the constructs the token stream has open, innermost last
    tokens,           \* the tokens the loop has processed so far
    docData,          \* the document handed to docsJsonToMarkdown, as far as its loop has read it
    rendered,         \* docsJsonToMarkdown's local `markdown`; the returned string at the end
    pieces            \* what the loop appended for each element of the body, in order

compileVars == <<markdown, context, startIndex, result, mergedListRanges, outsideInserts,
                 closedHeadings, nesting, tokens>>
renderVars == <<docData, rendered, pieces>>

vars == <<markdown, context, startIndex, pc, result, mergedListRanges, outsideInserts, closedHeadings,
          nesting, tokens, docData, rendered, pieces>>

\* ---------------------------------------------------------------- bounds

MaxTokens == 17      \* tokens of one call
MaxInserts == 7      \* insert requests of one call
MaxListInserts == 6  \* insert requests of one call, where lists are explored
MaxDocInserts == 8   \* insert requests of one call, where whole documents are explored
MaxDocTokens == 14   \* tokens of one call, where whole documents are explored
MaxStack == 3        \* entries of the formatting stack
MaxDepth == 2        \* open lists
MaxItems == 3        \* list items of one call
MaxRanges == 3       \* entries of textRanges, of paragraphRanges and of hrRanges
MaxLevel == 2        \* heading levels offered (the token contract allows 1..6)
MaxFreeTokens == 3   \* tokens of one call, where tokens come in any order
MaxTaskInserts == 4  \* insert requests of one call, where task lists are explored
MaxTaskItems == 2    \* list items of one call, where task lists are explored
MaxTaskTokens == 12   \* tokens of one call, where task lists are explored
MaxCallTokens == 4   \* tokens of one call, where the call is explored from its start
MaxHeadings == 3     \* headings of one call, where headings are explored

\* ---------------------------------------------------------------- optional values

None == <<>>
Some(v) == <<v>>
IsSome(o) == o # <<>>
Get(o) == o[1]

\* ---------------------------------------------------------------- characters and strings

NL == "\n"
TAB == "\t"
SP == " "

IsWhitespace(c) == c \in {SP, NL, TAB}

EndsWith(text, suffix) ==
    /\ Len(text) >= Len(suffix)
    /\ SubSeq(text, Len(text) - Len(suffix) + 1, Len(text)) = suffix

Repeat(c, n) == [i \in 1..n |-> c]

RECURSIVE WhitespaceRun(_, _)
WhitespaceRun(text, from) ==
    IF from <= Len(text) /\ IsWhitespace(text[from])
    THEN 1 + WhitespaceRun(text, from + 1)
    ELSE 0

\* a match that does not ask for whitespace after the bracket
TaskPrefixMatch_NoWhitespace(text) ==
    IF /\ Len(text) >= 3
       /\ text[1] = "["
       /\ text[2] \in {SP, "x", "X"}
       /\ text[3] = "]"
    THEN 3 + WhitespaceRun(text, 4)
    ELSE 0

\* text.match(/^\[( |x|X)\]\s+/): the length of the match, 0 when there is none
TaskPrefixMatch(text) ==
    IF /\ Len(text) >= 4
       /\ text[1] = "["
       /\ text[2] \in {SP, "x", "X"}
       /\ text[3] = "]"
       /\ IsWhitespace(text[4])
    THEN 3 + WhitespaceRun(text, 4)
    ELSE 0

\* String.prototype.trim: the text without the whitespace at its ends
RECURSIVE TrimStart(_)
TrimStart(text) ==
    IF text # <<>> /\ IsWhitespace(Head(text)) THEN TrimStart(Tail(text)) ELSE text

RECURSIVE TrimEnd(_)
TrimEnd(text) ==
    IF text # <<>> /\ IsWhitespace(text[Len(text)])
    THEN TrimEnd(SubSeq(text, 1, Len(text) - 1))
    ELSE text

Trim(text) == TrimEnd(TrimStart(text))

\* a test that takes only the empty markdown for blank
IsBlank_EmptyOnly(text) == text = <<>>

\* `!markdown || markdown.trim().length === 0`
IsBlank(text) == text = <<>> \/ Len(Trim(text)) = 0

RECURSIVE SplitLines(_)
SplitLines(text) ==
    IF \E i \in 1..Len(text) : text[i] = NL
    THEN LET i == CHOOSE j \in 1..Len(text) :
                      text[j] = NL /\ \A k \in 1..(j - 1) : text[k] # NL
         IN <<SubSeq(text, 1, i - 1)>> \o SplitLines(SubSeq(text, i + 1, Len(text)))
    ELSE <<text>>

\* ---------------------------------------------------------------- tokens

Token(type, content, level, href, children) ==
    [type |-> type, content |-> content, level |-> level, href |-> href,
     children |-> children]

Tok(type) == Token(type, <<>>, None, None, <<>>)
TextTok(type, content) == Token(type, content, None, None, <<>>)

\* getLinkHref
getLinkHref(token) == IF token.type # "link_open" THEN None ELSE token.href

\* getHeadingLevel: the digit of the tag h<d>
getHeadingLevel(token) ==
    IF token.type \notin {"heading_open", "heading_close"} THEN None ELSE token.level

\* ---------------------------------------------------------------- formatting states

NoFormatting ==
    [bold |-> None, italic |-> None, strikethrough |-> None, link |-> None, code |-> None]

Fmt(attr, v) == [NoFormatting EXCEPT ![attr] = Some(v)]

CODE_FONT_FAMILY == "Roboto Mono"
CODE_TEXT_HEX == "#188038"
CODE_BACKGROUND_HEX == "#F1F3F4"

\* ---------------------------------------------------------------- requests

Location(index, tabId) == [index |-> index, tabId |-> tabId]
Range(startIdx, endIdx, tabId) == [startIndex |-> startIdx, endIndex |-> endIdx, tabId |-> tabId]

\* `if (context.tabId)`: an absent or empty tab id is not attached
TabOf(ctx) == IF IsSome(ctx.tabId) /\ Get(ctx.tabId) # "" THEN ctx.tabId ELSE None

\* googleDocsApiHelpers.buildUpdateTextStyleRequest: null when the style names no
\* field, else the request over [startIdx, endIdx)
buildUpdateTextStyleRequest(startIdx, endIdx, style, tabId) ==
    IF \A f \in DOMAIN style : style[f] = None
    THEN None
    ELSE Some([kind |-> "updateTextStyle",
               range |-> Range(startIdx, endIdx,
                               IF IsSome(tabId) /\ Get(tabId) # "" THEN tabId ELSE None),
               textStyle |-> style])

\* googleDocsApiHelpers.buildUpdateParagraphStyleRequest
buildUpdateParagraphStyleRequest(startIdx, endIdx, style, tabId) ==
    IF \A f \in DOMAIN style : style[f] = None
    THEN None
    ELSE Some([kind |-> "updateParagraphStyle",
               range |-> Range(startIdx, endIdx,
                               IF IsSome(tabId) /\ Get(tabId) # "" THEN tabId ELSE None),
               paragraphStyle |-> style])

\* ---------------------------------------------------------------- the context

NewContext(start, tabId, firstHeadingAsTitle) ==
    [currentIndex |-> start,
     insertRequests |-> <<>>,
     formatRequests |-> <<>>,
     textRanges |-> <<>>,
     formattingStack |-> <<>>,
     listStack |-> <<>>,
     paragraphRanges |-> <<>>,
     pendingListItems |-> <<>>,
     openListItemStack |-> <<>>,
     hrRanges |-> <<>>,
     tabId |-> tabId,
     currentParagraphStart |-> None,
     currentHeadingLevel |-> None,
     titleConsumed |-> FALSE,
     firstHeadingAsTitle |-> firstHeadingAsTitle,
     thrown |-> FALSE]       \* a MarkdownConversionError is propagating

\* ---------------------------------------------------------------- utilities

getCurrentOpenListItem(ctx) ==
    IF ctx.openListItemStack = <<>>
    THEN None
    ELSE Some(ctx.openListItemStack[Len(ctx.openListItemStack)])

\* a test that takes a call without inserts for one whose last insert ends a line
lastInsertEndsWithNewline_OrNone(ctx) ==
    \/ ctx.insertRequests = <<>>
    \/ EndsWith(ctx.insertRequests[Len(ctx.insertRequests)].text, <<NL>>)

lastInsertEndsWithNewline(ctx) ==
    /\ ctx.insertRequests # <<>>
    /\ EndsWith(ctx.insertRequests[Len(ctx.insertRequests)].text, <<NL>>)

lastInsertEndsWithDoubleNewline(ctx) ==
    /\ ctx.insertRequests # <<>>
    /\ EndsWith(ctx.insertRequests[Len(ctx.insertRequests)].text, <<NL, NL>>)

\* ---------------------------------------------------------------- insert helper

\* a cursor that advances by one per insertion, whatever the length of the text
insertText_ByOne(text, ctx) ==
    [ctx EXCEPT
        !.insertRequests = Append(@, [kind |-> "insertText",
                                      location |-> Location(ctx.currentIndex, TabOf(ctx)),
                                      text |-> text]),
        !.currentIndex = @ + 1]

insertText(text, ctx) ==
    [ctx EXCEPT
        !.insertRequests = Append(@, [kind |-> "insertText",
                                      location |-> Location(ctx.currentIndex, TabOf(ctx)),
                                      text |-> text]),
        !.currentIndex = @ + Len(text)]

\* ---------------------------------------------------------------- formatting stack

RECURSIVE mergeFrom(_, _, _)
mergeFrom(stack, i, merged) ==
    IF i > Len(stack)
    THEN merged
    ELSE mergeFrom(stack, i + 1,
                   [f \in DOMAIN merged |->
                       IF stack[i][f] # None THEN stack[i][f] ELSE merged[f]])

\* a merge in which the entry pushed first wins
mergeFormattingStack_FirstWins(stack) ==
    mergeFrom([i \in 1..Len(stack) |-> stack[Len(stack) + 1 - i]], 1, NoFormatting)

mergeFormattingStack(stack) == mergeFrom(stack, 1, NoFormatting)

hasFormatting(formatting) ==
    \/ formatting.bold = Some(TRUE)
    \/ formatting.italic = Some(TRUE)
    \/ formatting.strikethrough = Some(TRUE)
    \/ formatting.code = Some(TRUE)
    \/ formatting.link # None

RemoveAt(seq, i) == SubSeq(seq, 1, i - 1) \o SubSeq(seq, i + 1, Len(seq))

\* a pop that removes the top entry, whatever it carries
popFormatting_Top(ctx, type) ==
    IF \A i \in 1..Len(ctx.formattingStack) : ctx.formattingStack[i][type] = None
    THEN ctx
    ELSE [ctx EXCEPT !.formattingStack = SubSeq(@, 1, Len(@) - 1)]

popFormatting(ctx, type) ==
    LET carriers == {i \in 1..Len(ctx.formattingStack) : ctx.formattingStack[i][type] # None}
    IN IF carriers = {}
       THEN ctx
       ELSE LET i == CHOOSE j \in carriers : \A k \in carriers : k <= j
            IN [ctx EXCEPT !.formattingStack = RemoveAt(@, i)]

\* ---------------------------------------------------------------- heading handlers

handleHeadingOpen(token, ctx) ==
    LET level == getHeadingLevel(token)
    IN IF IsSome(level) /\ Get(level) # 0
       THEN [ctx EXCEPT !.currentHeadingLevel = level,
                        !.currentParagraphStart = Some(ctx.currentIndex)]
       ELSE ctx

\* `HEADING_${level}`, the level being one decimal digit
NamedStyleOfLevel(level) ==
    <<"HEADING_1", "HEADING_2", "HEADING_3", "HEADING_4", "HEADING_5", "HEADING_6",
      "HEADING_7", "HEADING_8", "HEADING_9">>[level]

\* a close of a heading that never marks the title as consumed
handleHeadingClose_TitleNotConsumed(ctx) ==
    IF IsSome(ctx.currentHeadingLevel) /\ IsSome(ctx.currentParagraphStart)
    THEN LET useTitle == ctx.firstHeadingAsTitle /\ Get(ctx.currentHeadingLevel) = 1
             recorded ==
                 [ctx EXCEPT
                     !.paragraphRanges = Append(@,
                         [startIndex |-> Get(ctx.currentParagraphStart),
                          endIndex |-> ctx.currentIndex,
                          namedStyleType |->
                              IF useTitle THEN Some("TITLE")
                              ELSE Some(NamedStyleOfLevel(Get(ctx.currentHeadingLevel)))])]
         IN [insertText(<<NL>>, recorded) EXCEPT !.currentHeadingLevel = None,
                                                 !.currentParagraphStart = None]
    ELSE ctx

handleHeadingClose(ctx) ==
    IF IsSome(ctx.currentHeadingLevel) /\ IsSome(ctx.currentParagraphStart)
    THEN LET useTitle == /\ ctx.firstHeadingAsTitle
                         /\ ~ctx.titleConsumed
                         /\ Get(ctx.currentHeadingLevel) = 1
             recorded ==
                 [ctx EXCEPT
                     !.titleConsumed = IF useTitle THEN TRUE ELSE @,
                     !.paragraphRanges = Append(@,
                         [startIndex |-> Get(ctx.currentParagraphStart),
                          endIndex |-> ctx.currentIndex,
                          namedStyleType |->
                              IF useTitle THEN Some("TITLE")
                              ELSE Some(NamedStyleOfLevel(Get(ctx.currentHeadingLevel)))])]
         IN [insertText(<<NL>>, recorded) EXCEPT !.currentHeadingLevel = None,
                                                 !.currentParagraphStart = None]
    ELSE ctx

\* ---------------------------------------------------------------- horizontal rule

\* a rule that takes the line it stands on for its own, without a newline before it
handleHorizontalRule_NoLineBefore(ctx) ==
    LET start == ctx.currentIndex
        c2 == insertText(<<NL>>, ctx)
    IN [c2 EXCEPT !.hrRanges = Append(@, [startIndex |-> start, endIndex |-> c2.currentIndex])]

handleHorizontalRule(ctx) ==
    LET c1 == IF ~lastInsertEndsWithNewline(ctx) THEN insertText(<<NL>>, ctx) ELSE ctx
        start == c1.currentIndex
        c2 == insertText(<<NL>>, c1)
    IN [c2 EXCEPT !.hrRanges = Append(@, [startIndex |-> start, endIndex |-> c2.currentIndex])]

\* ---------------------------------------------------------------- paragraph handlers

handleParagraphOpen(ctx) ==
    IF Len(ctx.listStack) = 0
    THEN [ctx EXCEPT !.currentParagraphStart = Some(ctx.currentIndex)]
    ELSE ctx

handleParagraphClose(ctx) ==
    LET c1 == IF ~lastInsertEndsWithNewline(ctx) THEN insertText(<<NL>>, ctx) ELSE ctx
        open == getCurrentOpenListItem(c1)
        paragraphEndIndex == IF lastInsertEndsWithNewline(c1)
                             THEN c1.currentIndex - 1
                             ELSE c1.currentIndex
        c2 == IF IsSome(open) /\ paragraphEndIndex > c1.pendingListItems[Get(open)].startIndex
              THEN [c1 EXCEPT !.pendingListItems[Get(open)].endIndex = Some(paragraphEndIndex)]
              ELSE c1
    IN [c2 EXCEPT !.currentParagraphStart = None]

\* ---------------------------------------------------------------- list handlers

PresetOfList(list) ==
    IF list.type = "ordered" THEN "NUMBERED_DECIMAL_ALPHA_ROMAN" ELSE "BULLET_DISC_CIRCLE_SQUARE"

\* an opening of a list item that passes over an item met outside every list
handleListItemOpen_Lenient(ctx) ==
    IF Len(ctx.listStack) = 0
    THEN ctx
    ELSE LET currentList == ctx.listStack[Len(ctx.listStack)]
             itemStart == ctx.currentIndex
             c1 == IF currentList.level > 0
                   THEN insertText(Repeat(TAB, currentList.level), ctx)
                   ELSE ctx
             listItem == [startIndex |-> itemStart,
                          endIndex |-> None,
                          nestingLevel |-> currentList.level,
                          bulletPreset |-> PresetOfList(currentList),
                          taskPrefixProcessed |-> FALSE]
         IN [c1 EXCEPT !.pendingListItems = Append(@, listItem),
                       !.openListItemStack = Append(@, Len(c1.pendingListItems) + 1)]

\* an opening of a list item that takes its preset from the outermost open list
handleListItemOpen_OuterKind(ctx) ==
    IF Len(ctx.listStack) = 0
    THEN [ctx EXCEPT !.thrown = TRUE]
    ELSE LET currentList == ctx.listStack[Len(ctx.listStack)]
             itemStart == ctx.currentIndex
             c1 == IF currentList.level > 0
                   THEN insertText(Repeat(TAB, currentList.level), ctx)
                   ELSE ctx
             listItem == [startIndex |-> itemStart,
                          endIndex |-> None,
                          nestingLevel |-> currentList.level,
                          bulletPreset |-> PresetOfList(ctx.listStack[1]),
                          taskPrefixProcessed |-> FALSE]
         IN [c1 EXCEPT !.pendingListItems = Append(@, listItem),
                       !.openListItemStack = Append(@, Len(c1.pendingListItems) + 1)]

handleListItemOpen(ctx) ==
    IF Len(ctx.listStack) = 0
    THEN [ctx EXCEPT !.thrown = TRUE]
    ELSE LET currentList == ctx.listStack[Len(ctx.listStack)]
             itemStart == ctx.currentIndex
             c1 == IF currentList.level > 0
                   THEN insertText(Repeat(TAB, currentList.level), ctx)
                   ELSE ctx
             listItem == [startIndex |-> itemStart,
                          endIndex |-> None,
                          nestingLevel |-> currentList.level,
                          bulletPreset |-> PresetOfList(currentList),
                          taskPrefixProcessed |-> FALSE]
         IN [c1 EXCEPT !.pendingListItems = Append(@, listItem),
                       !.openListItemStack = Append(@, Len(c1.pendingListItems) + 1)]

handleListItemClose(ctx) ==
    IF ctx.openListItemStack = <<>>
    THEN ctx
    ELSE LET openIndex == ctx.openListItemStack[Len(ctx.openListItemStack)]
             c1 == [ctx EXCEPT !.openListItemStack = SubSeq(@, 1, Len(@) - 1)]
             listItem == c1.pendingListItems[openIndex]
             computedEndIndex == IF lastInsertEndsWithNewline(c1)
                                 THEN c1.currentIndex - 1
                                 ELSE c1.currentIndex
             c2 == IF listItem.endIndex = None /\ computedEndIndex > listItem.startIndex
                   THEN [c1 EXCEPT !.pendingListItems[openIndex].endIndex =
                                        Some(computedEndIndex)]
                   ELSE c1
         IN IF ~lastInsertEndsWithNewline(c2) THEN insertText(<<NL>>, c2) ELSE c2

\* ---------------------------------------------------------------- text handling

handleTextToken(token, ctx) ==
    IF token.content = <<>>
    THEN ctx
    ELSE LET open == getCurrentOpenListItem(ctx)
             examine == IsSome(open) /\ ~ctx.pendingListItems[Get(open)].taskPrefixProcessed
             matched == IF examine THEN TaskPrefixMatch(token.content) ELSE 0
             c1 == IF examine
                   THEN [ctx EXCEPT
                            !.pendingListItems[Get(open)].taskPrefixProcessed = TRUE,
                            !.pendingListItems[Get(open)].bulletPreset =
                                IF matched > 0 THEN "BULLET_CHECKBOX" ELSE @]
                   ELSE ctx
             text == IF matched > 0
                     THEN SubSeq(token.content, matched + 1, Len(token.content))
                     ELSE token.content
         IN IF text = <<>>
            THEN c1
            ELSE LET start == c1.currentIndex
                     end == start + Len(text)
                     c2 == insertText(text, c1)
                     currentFormatting == mergeFormattingStack(c2.formattingStack)
                 IN IF hasFormatting(currentFormatting)
                    THEN [c2 EXCEPT !.textRanges = Append(@,
                             [startIndex |-> start, endIndex |-> end,
                              formatting |-> currentFormatting])]
                    ELSE c2

handleCodeInlineToken(token, ctx) ==
    LET c1 == [ctx EXCEPT !.formattingStack = Append(@, Fmt("code", TRUE))]
        c2 == handleTextToken(token, c1)
    IN popFormatting(c2, "code")

RECURSIVE codeLines(_, _)
codeLines(lines, ctx) ==
    IF lines = <<>>
    THEN ctx
    ELSE LET line == Head(lines)
             start == ctx.currentIndex
             c1 == IF Len(line) > 0 THEN insertText(line, ctx) ELSE insertText(<<SP>>, ctx)
             c2 == [c1 EXCEPT !.textRanges = Append(@,
                       [startIndex |-> start, endIndex |-> c1.currentIndex,
                        formatting |-> Fmt("code", TRUE)])]
         IN codeLines(Tail(lines), insertText(<<NL>>, c2))

\* a code block that keeps the trailing newline of its content as a last, empty line
handleCodeBlockToken_KeepsTrailingNewline(token, ctx) ==
    LET lines == IF Len(token.content) > 0 THEN SplitLines(token.content) ELSE <<<<>>>>
        c1 == codeLines(lines, ctx)
    IN IF ~lastInsertEndsWithDoubleNewline(c1) THEN insertText(<<NL>>, c1) ELSE c1

handleCodeBlockToken(token, ctx) ==
    LET normalizedContent == IF EndsWith(token.content, <<NL>>)
                             THEN SubSeq(token.content, 1, Len(token.content) - 1)
                             ELSE token.content
        lines == IF Len(normalizedContent) > 0 THEN SplitLines(normalizedContent) ELSE <<<<>>>>
        c1 == codeLines(lines, ctx)
    IN IF ~lastInsertEndsWithDoubleNewline(c1) THEN insertText(<<NL>>, c1) ELSE c1

\* ---------------------------------------------------------------- token processing

RECURSIVE processToken(_, _)
RECURSIVE processChildren(_, _)

\* the loop over token.children; a raised error ends it
processChildren(children, ctx) ==
    IF children = <<>> \/ ctx.thrown
    THEN ctx
    ELSE processChildren(Tail(children), processToken(Head(children), ctx))

processToken(token, ctx) ==
    CASE token.type = "heading_open" -> handleHeadingOpen(token, ctx)
      [] token.type = "heading_close" -> handleHeadingClose(ctx)
      [] token.type = "paragraph_open" -> handleParagraphOpen(ctx)
      [] token.type = "paragraph_close" -> handleParagraphClose(ctx)
      [] token.type = "text" -> handleTextToken(token, ctx)
      [] token.type = "code_inline" -> handleCodeInlineToken(token, ctx)
      [] token.type = "strong_open" ->
            [ctx EXCEPT !.formattingStack = Append(@, Fmt("bold", TRUE))]
      [] token.type = "strong_close" -> popFormatting(ctx, "bold")
      [] token.type = "em_open" ->
            [ctx EXCEPT !.formattingStack = Append(@, Fmt("italic", TRUE))]
      [] token.type = "em_close" -> popFormatting(ctx, "italic")
      [] token.type = "s_open" ->
            [ctx EXCEPT !.formattingStack = Append(@, Fmt("strikethrough", TRUE))]
      [] token.type = "s_close" -> popFormatting(ctx, "strikethrough")
      [] token.type = "link_open" ->
            LET href == getLinkHref(token)
            IN IF IsSome(href) /\ Get(href) # ""
               THEN [ctx EXCEPT !.formattingStack = Append(@, Fmt("link", Get(href)))]
               ELSE ctx
      [] token.type = "link_close" -> popFormatting(ctx, "link")
      [] token.type = "bullet_list_open" ->
            [ctx EXCEPT !.listStack =
                Append(@, [type |-> "bullet", level |-> Len(ctx.listStack)])]
      [] token.type = "bullet_list_close" ->
            [ctx EXCEPT !.listStack = SubSeq(@, 1, Len(@) - 1)]
      [] token.type = "ordered_list_open" ->
            [ctx EXCEPT !.listStack =
                Append(@, [type |-> "ordered", level |-> Len(ctx.listStack)])]
      [] token.type = "ordered_list_close" ->
            [ctx EXCEPT !.listStack = SubSeq(@, 1, Len(@) - 1)]
      [] token.type = "list_item_open" -> handleListItemOpen(ctx)
      [] token.type = "list_item_close" -> handleListItemClose(ctx)
      [] token.type = "softbreak" -> insertText(<<SP>>, ctx)
      [] token.type = "hardbreak" -> insertText(<<NL>>, ctx)
      [] token.type = "inline" -> processChildren(token.children, ctx)
      [] token.type \in {"fence", "code_block"} -> handleCodeBlockToken(token, ctx)
      [] token.type = "hr" -> handleHorizontalRule(ctx)
      [] OTHER -> ctx

\* ---------------------------------------------------------------- finalization

\* Array.prototype.sort with comparator (a, b) => a.startIndex - b.startIndex (stable)
RECURSIVE InsertAscending(_, _)
InsertAscending(sorted, x) ==
    IF sorted = <<>> THEN <<x>>
    ELSE IF Head(sorted).startIndex <= x.startIndex
         THEN <<Head(sorted)>> \o InsertAscending(Tail(sorted), x)
         ELSE <<x>> \o sorted

RECURSIVE SortAscending(_)
SortAscending(seq) ==
    IF seq = <<>> THEN <<>>
    ELSE InsertAscending(SortAscending(SubSeq(seq, 1, Len(seq) - 1)), seq[Len(seq)])

\* Array.prototype.sort with comparator (a, b) => b.startIndex - a.startIndex (stable)
RECURSIVE InsertDescending(_, _)
InsertDescending(sorted, x) ==
    IF sorted = <<>> THEN <<x>>
    ELSE IF Head(sorted).startIndex >= x.startIndex
         THEN <<Head(sorted)>> \o InsertDescending(Tail(sorted), x)
         ELSE <<x>> \o sorted

RECURSIVE SortDescending(_)
SortDescending(seq) ==
    IF seq = <<>> THEN <<>>
    ELSE InsertDescending(SortDescending(SubSeq(seq, 1, Len(seq) - 1)), seq[Len(seq)])

RECURSIVE FilterValid(_, _)
FilterValid(items, i) ==
    IF i > Len(items) THEN <<>>
    ELSE IF IsSome(items[i].endIndex) /\ Get(items[i].endIndex) > items[i].startIndex
         THEN <<[startIndex |-> items[i].startIndex,
                 endIndex |-> Get(items[i].endIndex),
                 bulletPreset |-> items[i].bulletPreset,
                 item |-> i]>>          \* which pending item this is
              \o FilterValid(items, i + 1)
         ELSE FilterValid(items, i + 1)

validListItems(ctx) == SortAscending(FilterValid(ctx.pendingListItems, 1))

\* a maximum that is always its second argument
Max_Second(a, b) == b

Max(a, b) == IF a >= b THEN a ELSE b

\* a walk that merges adjacent items of any preset
Extends_AnyPreset(last, item) == item.startIndex <= last.endIndex + 1

\* a walk that merges the items of one preset however far apart
Extends_AnyGap(last, item) == last.bulletPreset = item.bulletPreset

\* a walk that merges items of one preset only where one starts at the end of the other
Extends_NoGap(last, item) ==
    last.bulletPreset = item.bulletPreset /\ item.startIndex <= last.endIndex

\* whether the walk extends the last merged range by the item
Extends(last, item) ==
    /\ last.bulletPreset = item.bulletPreset
    /\ item.startIndex <= last.endIndex + 1

\* the walk over validListItems; `members` records the items a range was formed from
RECURSIVE MergeWalk(_, _)
MergeWalk(items, merged) ==
    IF items = <<>> THEN merged
    ELSE LET item == Head(items)
             n == Len(merged)
         IN IF n > 0 /\ Extends(merged[n], item)
            THEN MergeWalk(Tail(items),
                     [merged EXCEPT ![n].endIndex = Max(@, item.endIndex),
                                    ![n].members = Append(@, item.item)])
            ELSE MergeWalk(Tail(items),
                     Append(merged, [startIndex |-> item.startIndex,
                                     endIndex |-> item.endIndex,
                                     bulletPreset |-> item.bulletPreset,
                                     members |-> <<item.item>>]))

\* mergedListRanges left in the order of the walk
MergedListRanges_Unsorted(ctx) == MergeWalk(validListItems(ctx), <<>>)

\* mergedListRanges after the bottom-to-top sort
MergedListRanges(ctx) == SortDescending(MergeWalk(validListItems(ctx), <<>>))

TextStyleOf(formatting) ==
    [bold |-> formatting.bold,
     italic |-> formatting.italic,
     strikethrough |-> formatting.strikethrough,
     fontFamily |-> IF formatting.code = Some(TRUE) THEN Some(CODE_FONT_FAMILY) ELSE None,
     foregroundColor |-> IF formatting.code = Some(TRUE) THEN Some(CODE_TEXT_HEX) ELSE None,
     backgroundColor |-> IF formatting.code = Some(TRUE) THEN Some(CODE_BACKGROUND_HEX)
                         ELSE None,
     linkUrl |-> None]

LinkStyleOf(formatting) ==
    [bold |-> None, italic |-> None, strikethrough |-> None, fontFamily |-> None,
     foregroundColor |-> None, backgroundColor |-> None, linkUrl |-> formatting.link]

\* the link request put before the decoration request
TextRangeRequests_LinkFirst(range, tabId) ==
    (IF IsSome(range.formatting.link) /\ Get(range.formatting.link) # ""
     THEN buildUpdateTextStyleRequest(range.startIndex, range.endIndex,
                                      LinkStyleOf(range.formatting), tabId)
     ELSE <<>>)
    \o
    (IF \/ range.formatting.bold = Some(TRUE)
        \/ range.formatting.italic = Some(TRUE)
        \/ range.formatting.strikethrough = Some(TRUE)
        \/ range.formatting.code = Some(TRUE)
     THEN buildUpdateTextStyleRequest(range.startIndex, range.endIndex,
                                      TextStyleOf(range.formatting), tabId)
     ELSE <<>>)

\* the requests of one textRanges entry: decoration, then link
TextRangeRequests(range, tabId) ==
    (IF \/ range.formatting.bold = Some(TRUE)
        \/ range.formatting.italic = Some(TRUE)
        \/ range.formatting.strikethrough = Some(TRUE)
        \/ range.formatting.code = Some(TRUE)
     THEN buildUpdateTextStyleRequest(range.startIndex, range.endIndex,
                                      TextStyleOf(range.formatting), tabId)
     ELSE <<>>)
    \o
    (IF IsSome(range.formatting.link) /\ Get(range.formatting.link) # ""
     THEN buildUpdateTextStyleRequest(range.startIndex, range.endIndex,
                                      LinkStyleOf(range.formatting), tabId)
     ELSE <<>>)

ParagraphRangeRequests(paraRange, tabId) ==
    IF IsSome(paraRange.namedStyleType)
    THEN buildUpdateParagraphStyleRequest(paraRange.startIndex, paraRange.endIndex,
             [namedStyleType |-> paraRange.namedStyleType], tabId)
    ELSE <<>>

\* a border request that leaves the tabId out of its range
HrRequest_NoTab(hrRange, ctx) ==
    [kind |-> "updateParagraphStyle",
     range |-> Range(hrRange.startIndex, hrRange.endIndex, None),
     paragraphStyle |-> [borderBottom |-> [width |-> <<1, "PT">>, padding |-> <<6, "PT">>,
                                           dashStyle |-> "SOLID"]]]

HrRequest(hrRange, ctx) ==
    [kind |-> "updateParagraphStyle",
     range |-> Range(hrRange.startIndex, hrRange.endIndex, TabOf(ctx)),
     paragraphStyle |-> [borderBottom |-> [width |-> <<1, "PT">>, padding |-> <<6, "PT">>,
                                           dashStyle |-> "SOLID"]]]

BulletRequest(merged, ctx) ==
    [kind |-> "createParagraphBullets",
     range |-> Range(merged.startIndex, merged.endIndex, TabOf(ctx)),
     bulletPreset |-> merged.bulletPreset]

RECURSIVE Flatten(_)
Flatten(seqs) == IF seqs = <<>> THEN <<>> ELSE Head(seqs) \o Flatten(Tail(seqs))

finalizeFormatting(ctx) ==
    LET merged == MergedListRanges(ctx)
    IN [ctx EXCEPT !.formatRequests =
          @ \o Flatten([i \in 1..Len(ctx.textRanges) |->
                           TextRangeRequests(ctx.textRanges[i], ctx.tabId)])
            \o Flatten([i \in 1..Len(ctx.paragraphRanges) |->
                           ParagraphRangeRequests(ctx.paragraphRanges[i], ctx.tabId)])
            \o [i \in 1..Len(ctx.hrRanges) |-> HrRequest(ctx.hrRanges[i], ctx)]
            \o [i \in 1..Len(merged) |-> BulletRequest(merged[i], ctx)]]

\* ---------------------------------------------------------------- the token stream

(* parser.parse(markdown) yields a well-nested stream: a block (heading, paragraph,
   list, fence, hr) stands at the top level or inside a list item, a list holds one
   or more items, a heading or a paragraph holds exactly one inline token.  processToken
   hands the children of an inline token on one by one, so the stream may also show
   them in the place of their inline token.  `nesting` follows the stream; the
   one-entry stack <<"any">> stands for a stream of tokens in any order, as the
   token-level contract of processToken allows. *)
AnyOrder == <<"any">>
Top(stack) == IF stack = <<>> THEN "document" ELSE stack[Len(stack)]
Pop(stack) == SubSeq(stack, 1, Len(stack) - 1)
Push(stack, frame) == Append(stack, frame)
Retop(stack, frame) == Append(Pop(stack), frame)

\* the types of the tokens an inline token holds
InlineLevel ==
    {"text", "code_inline", "strong_open", "strong_close", "em_open", "em_close",
     "s_open", "s_close", "link_open", "link_close", "softbreak", "hardbreak"}

BlockStart(stack) == Top(stack) \in {"document", "item"}

\* whether the stream may continue with a token of this type
Allows(stack, type) ==
    \/ stack = AnyOrder
    \/ CASE type \in {"heading_open", "paragraph_open", "fence", "code_block", "hr",
                      "bullet_list_open", "ordered_list_open"} -> BlockStart(stack)
         [] type = "inline" -> Top(stack) \in {"heading_open", "paragraph_open"}
         [] type \in InlineLevel ->
               Top(stack) \in {"heading_open", "heading", "paragraph_open", "paragraph"}
         [] type = "heading_close" -> Top(stack) = "heading"
         [] type = "paragraph_close" -> Top(stack) = "paragraph"
         [] type = "list_item_open" ->
               Top(stack) \in {"bullet_list_open", "bullet_list",
                               "ordered_list_open", "ordered_list"}
         [] type = "list_item_close" -> Top(stack) = "item"
         [] type = "bullet_list_close" -> Top(stack) = "bullet_list"
         [] type = "ordered_list_close" -> Top(stack) = "ordered_list"
         [] OTHER -> FALSE

\* the nesting after a token of this type
After(stack, type) ==
    IF stack = AnyOrder THEN stack
    ELSE CASE type \in {"heading_open", "paragraph_open", "bullet_list_open",
                        "ordered_list_open"} -> Push(stack, type)
           [] type \in {"inline"} \cup InlineLevel ->
                 Retop(stack, IF Top(stack) \in {"heading_open", "heading"}
                              THEN "heading" ELSE "paragraph")
           [] type = "list_item_open" ->
                 Push(Retop(stack, IF Top(stack) \in {"bullet_list_open", "bullet_list"}
                                   THEN "bullet_list" ELSE "ordered_list"), "item")
           [] type \in {"heading_close", "paragraph_close", "list_item_close",
                        "bullet_list_close", "ordered_list_close"} -> Pop(stack)
           [] OTHER -> stack

\* ---------------------------------------------------------------- the call as a state machine

\* the arguments offered to a call
StartIndexes == {1, 4}
TabIds == {None, Some("t1")}
Hrefs == {Some("u"), None}
Levels == 1..MaxLevel

\* contents offered to text and code_inline tokens
Letters == <<"a">>
Word == <<"a", "b">>
Checked == <<"[", "x", "]", SP, "a">>
BarePrefix == <<"[", "X", "]", SP>>
NoSpace == <<"[", "x", "]", "a">>
Twice == <<"[", SP, "]", SP, "[", "x", "]">>

\* markdown arguments: empty, of whitespace only, and not blank
Empty == <<>>
Blanks == <<SP, NL, TAB>>
NotBlank == <<SP, "a", NL>>
Markdowns == {Empty, <<SP>>, Blanks, NotBlank, <<"a">>}

\* contents offered to fence and code_block tokens
CodeContents == {<<>>, <<"a", NL>>, <<"a", NL, NL, "b">>}

Bounded(ctx) ==
    /\ Len(ctx.insertRequests) <= MaxInserts
    /\ Len(ctx.formattingStack) <= MaxStack
    /\ Len(ctx.listStack) <= MaxDepth
    /\ Len(ctx.pendingListItems) <= MaxItems
    /\ Len(ctx.textRanges) <= MaxRanges
    /\ Len(ctx.paragraphRanges) <= MaxRanges
    /\ Len(ctx.hrRanges) <= MaxRanges

\* no document is being rendered
NothingRendered ==
    /\ docData = [body |-> None, lists |-> None]
    /\ rendered = <<>>
    /\ pieces = <<>>

\* the state at the head of the token loop: the markdown was not blank and the parser,
\* which is not part of the compiler, has made a stream of it
InitWith(starts, tabIds, titleOptions, stream) ==
    /\ markdown = NotBlank
    /\ startIndex \in starts
    /\ \E tabId \in tabIds, firstHeadingAsTitle \in titleOptions :
          context = NewContext(startIndex, tabId, firstHeadingAsTitle)
    /\ pc = "run"
    /\ result = <<>>
    /\ mergedListRanges = <<>>
    /\ outsideInserts = {}
    /\ closedHeadings = <<>>
    /\ nesting = stream
    /\ tokens = <<>>
    /\ NothingRendered

NewInsertIndexes(before, after) ==
    {after.insertRequests[i].location.index :
        i \in (Len(before.insertRequests) + 1)..Len(after.insertRequests)}

\* one turn of the loop `for (const token of tokens) processToken(token, context)`
Step(token) ==
    /\ pc = "run"
    /\ Len(tokens) < MaxTokens
    /\ Allows(nesting, token.type)
    /\ nesting' = After(nesting, token.type)
    /\ tokens' = Append(tokens, token)
    /\ LET after == processToken(token, context)
       IN /\ Bounded(after)
          /\ context' = after
          /\ pc' = IF after.thrown THEN "threw" ELSE "run"
          /\ outsideInserts' =
                IF context.openListItemStack = <<>>
                THEN outsideInserts \cup NewInsertIndexes(context, after)
                ELSE outsideInserts
          /\ closedHeadings' =
                IF Len(after.paragraphRanges) > Len(context.paragraphRanges)
                THEN Append(closedHeadings, Get(context.currentHeadingLevel))
                ELSE closedHeadings
    /\ UNCHANGED <<markdown, startIndex, result, mergedListRanges>>
    /\ UNCHANGED renderVars

HeadingOpen(levels) ==
    \E level \in levels : Step(Token("heading_open", <<>>, Some(level), None, <<>>))
\* of a well-nested stream the closing token bears the level of the opening one
HeadingClose(levels) ==
    \E level \in levels :
        /\ nesting = AnyOrder \/ context.currentHeadingLevel = Some(level)
        /\ Step(Token("heading_close", <<>>, Some(level), None, <<>>))
ParagraphOpen == Step(Tok("paragraph_open"))
ParagraphClose == Step(Tok("paragraph_close"))
Text(contents) == \E content \in contents : Step(TextTok("text", content))
CodeInline(contents) == \E content \in contents : Step(TextTok("code_inline", content))
StrongOpen == Step(Tok("strong_open"))
StrongClose == Step(Tok("strong_close"))
EmOpen == Step(Tok("em_open"))
EmClose == Step(Tok("em_close"))
SOpen == Step(Tok("s_open"))
SClose == Step(Tok("s_close"))
LinkOpen == \E href \in Hrefs : Step(Token("link_open", <<>>, None, href, <<>>))
LinkClose == Step(Tok("link_close"))
BulletListOpen == Step(Tok("bullet_list_open"))
BulletListClose == Step(Tok("bullet_list_close"))
OrderedListOpen == Step(Tok("ordered_list_open"))
OrderedListClose == Step(Tok("ordered_list_close"))
ListItemOpen == Step(Tok("list_item_open"))
ListItemClose == Step(Tok("list_item_close"))
Softbreak == Step(Tok("softbreak"))
Hardbreak == Step(Tok("hardbreak"))
\* of a well-nested stream only a heading holds an inline token without children
Inline(childrenOffered) ==
    \E children \in childrenOffered :
        /\ children # <<>> \/ Top(nesting) # "paragraph_open"
        /\ Step(Token("inline", <<>>, None, None, children))
CodeBlock(types, contents) ==
    \E type \in types, content \in contents : Step(TextTok(type, content))
Hr == Step(Tok("hr"))
Skipped == \E type \in {"table_open", "td_close", "blockquote_open", "html_block"} :
               Step(Tok(type))

\* `return [...context.insertRequests, ...context.formatRequests]`
ReturnValue(ctx) == ctx.insertRequests \o ctx.formatRequests

\* the end of the loop: finalizeFormatting, then the return
Return ==
    /\ pc = "run"
    /\ nesting \in {<<>>, AnyOrder}
    /\ LET after == finalizeFormatting(context)
       IN /\ context' = after
          /\ result' = ReturnValue(after)
    /\ mergedListRanges' = MergedListRanges(context)
    /\ pc' = "done"
    /\ UNCHANGED <<markdown, startIndex, outsideInserts, closedHeadings, nesting, tokens>>
    /\ UNCHANGED renderVars

\* ---------------------------------------------------------------- whole documents

\* the inline contents offered to headings and paragraphs
DocChildren ==
    {<<>>,
     <<TextTok("text", Letters)>>,
     <<Token("link_open", <<>>, None, Some("u"), <<>>), Tok("strong_open"),
       TextTok("text", Word), Tok("strong_close"), Tok("link_close")>>}

DocBounded ==
    /\ Len(context.insertRequests) <= MaxDocInserts
    /\ Len(context.pendingListItems) <= 1
    /\ Len(context.hrRanges) <= 1
    /\ Len(context.paragraphRanges) <= 1
    /\ Len(tokens) <= MaxDocTokens

Next ==
    \/ HeadingOpen({2}) /\ DocBounded'
    \/ HeadingClose({2}) /\ DocBounded'
    \/ ParagraphOpen /\ DocBounded'
    \/ Inline(DocChildren) /\ DocBounded'
    \/ ParagraphClose /\ DocBounded'
    \/ CodeBlock({"fence"}, {<<"a", NL>>}) /\ DocBounded'
    \/ Hr /\ DocBounded'
    \/ BulletListOpen /\ DocBounded'
    \/ BulletListClose /\ DocBounded'
    \/ ListItemOpen /\ DocBounded'
    \/ ListItemClose /\ DocBounded'
    \/ Return

Init == InitWith(StartIndexes, {None}, {FALSE}, <<>>)

Spec == Init /\ [][Next]_vars

\* whole documents compiled for the default tab and for a named one
SpecTabs == InitWith({1}, TabIds, {FALSE}, <<>>) /\ [][Next]_vars

\* ---------------------------------------------------------------- lists

\* the inline contents offered inside and between lists
ListChildren ==
    {<<TextTok("text", Letters)>>,
     <<TextTok("text", Checked)>>}

ListBounded ==
    /\ Len(context.insertRequests) <= MaxListInserts
    /\ Len(context.hrRanges) <= 1

NextLists ==
    \/ BulletListOpen /\ ListBounded'
    \/ BulletListClose /\ ListBounded'
    \/ OrderedListOpen /\ ListBounded'
    \/ OrderedListClose /\ ListBounded'
    \/ ListItemOpen /\ ListBounded'
    \/ ListItemClose /\ ListBounded'
    \/ ParagraphOpen /\ ListBounded'
    \/ Inline(ListChildren) /\ ListBounded'
    \/ ParagraphClose /\ ListBounded'
    \/ Hr /\ ListBounded'
    \/ Return

SpecLists == InitWith({1}, {None}, {FALSE}, <<>>) /\ [][NextLists]_vars

\* ---------------------------------------------------------------- task lists

\* the contents offered to the text and code_inline tokens of list items
TaskTexts == {Letters, Checked, BarePrefix, Twice, NoSpace}
TaskCodes == {Checked}

\* lists that are not nested, of paragraphs inside items
TasksBounded ==
    /\ Len(context.listStack) <= 1
    /\ context.currentParagraphStart = None
    /\ Len(context.insertRequests) <= MaxTaskInserts
    /\ Len(context.pendingListItems) <= MaxTaskItems
    /\ Len(tokens) <= MaxTaskTokens

NextTasks ==
    \/ BulletListOpen /\ TasksBounded'
    \/ BulletListClose /\ TasksBounded'
    \/ OrderedListOpen /\ TasksBounded'
    \/ OrderedListClose /\ TasksBounded'
    \/ ListItemOpen /\ TasksBounded'
    \/ ListItemClose /\ TasksBounded'
    \/ ParagraphOpen /\ TasksBounded'
    \/ Text(TaskTexts) /\ TasksBounded'
    \/ CodeInline(TaskCodes) /\ TasksBounded'
    \/ ParagraphClose /\ TasksBounded'
    \/ Return

SpecTasks == InitWith({1}, {None}, {FALSE}, <<>>) /\ [][NextTasks]_vars

\* ---------------------------------------------------------------- headings

\* the inline contents offered to headings and to the paragraphs between them
HeadingChildren == {<<>>, <<TextTok("text", Letters)>>}

\* the levels offered to headings: the lowest ones and the highest of h1..h6
HeadingLevels == Levels \cup {6}

HeadingsBounded ==
    /\ Len(context.paragraphRanges) <= MaxHeadings
    /\ Len(context.insertRequests) <= MaxHeadings + 2

NextHeadings ==
    \/ HeadingOpen(HeadingLevels) /\ HeadingsBounded'
    \/ HeadingClose(HeadingLevels) /\ HeadingsBounded'
    \/ Inline(HeadingChildren) /\ HeadingsBounded'
    \/ ParagraphOpen /\ HeadingsBounded'
    \/ ParagraphClose /\ HeadingsBounded'
    \/ Return

SpecHeadings == InitWith({1}, {None}, BOOLEAN, <<>>) /\ [][NextHeadings]_vars

\* ---------------------------------------------------------------- tokens in any order

\* the inline contents offered where tokens come in any order
AnyChildren ==
    {<<TextTok("text", Letters)>>,
     <<TextTok("text", Letters), Tok("list_item_open")>>}

\* whether the call explored may process one more token
AnyBounded == Len(tokens) < MaxFreeTokens

NextAnyOrder ==
    \/ AnyBounded /\ HeadingOpen({1})
    \/ AnyBounded /\ HeadingClose({1})
    \/ AnyBounded /\ ParagraphOpen
    \/ AnyBounded /\ ParagraphClose
    \/ AnyBounded /\ Text({Letters})
    \/ AnyBounded /\ CodeInline({Letters})
    \/ AnyBounded /\ StrongOpen
    \/ AnyBounded /\ StrongClose
    \/ AnyBounded /\ EmOpen
    \/ AnyBounded /\ EmClose
    \/ AnyBounded /\ SOpen
    \/ AnyBounded /\ SClose
    \/ AnyBounded /\ LinkOpen
    \/ AnyBounded /\ LinkClose
    \/ AnyBounded /\ BulletListOpen
    \/ AnyBounded /\ BulletListClose
    \/ AnyBounded /\ OrderedListOpen
    \/ AnyBounded /\ OrderedListClose
    \/ AnyBounded /\ ListItemOpen
    \/ AnyBounded /\ ListItemClose
    \/ AnyBounded /\ Softbreak
    \/ AnyBounded /\ Hardbreak
    \/ AnyBounded /\ Inline(AnyChildren)
    \/ AnyBounded /\ CodeBlock({"fence", "code_block"}, {<<"a", NL>>})
    \/ AnyBounded /\ Hr
    \/ AnyBounded /\ Skipped
    \/ Return

SpecAnyOrder == InitWith({1}, {None}, {FALSE}, AnyOrder) /\ [][NextAnyOrder]_vars

\* ---------------------------------------------------------------- the call from its start

\* the early return of a call with blank markdown
ReturnEmpty ==
    /\ pc = "call"
    /\ IsBlank(markdown)
    /\ result' = <<>>
    /\ pc' = "done"
    /\ UNCHANGED <<markdown, context, startIndex, mergedListRanges, outsideInserts,
                   closedHeadings, nesting, tokens>>
    /\ UNCHANGED renderVars

\* parser.parse(markdown, {}) and the making of the context
Parse ==
    /\ pc = "call"
    /\ ~IsBlank(markdown)
    /\ pc' = "run"
    /\ UNCHANGED <<markdown, context, startIndex, result, mergedListRanges, outsideInserts,
                   closedHeadings, nesting, tokens>>
    /\ UNCHANGED renderVars

CallBounded == Len(tokens) < MaxCallTokens

NextCall ==
    \/ ReturnEmpty
    \/ Parse
    \/ CallBounded /\ HeadingOpen({1})
    \/ CallBounded /\ Inline(HeadingChildren)
    \/ CallBounded /\ HeadingClose({1})
    \/ CallBounded /\ Hr
    \/ Return

\* the call with its arguments; the context holds the tabId and the option from the start
InitCall ==
    /\ markdown \in Markdowns
    /\ startIndex \in StartIndexes
    /\ \E tabId \in TabIds, firstHeadingAsTitle \in BOOLEAN :
          context = NewContext(startIndex, tabId, firstHeadingAsTitle)
    /\ pc = "call"
    /\ result = <<>>
    /\ mergedListRanges = <<>>
    /\ outsideInserts = {}
    /\ closedHeadings = <<>>
    /\ nesting = <<>>
    /\ tokens = <<>>
    /\ NothingRendered

SpecCall == InitCall /\ [][NextCall]_vars

\* ---------------------------------------------------------------- the reverse renderer

(* docsJsonToMarkdown (src/markdown-transformer/docsToMarkdown.ts) turns the JSON of a
   document into markdown.  Its loop over body.content is the state machine: every
   element read is one step, the trim and the return are the last step.  Strings are
   sequences of one-character strings, as in the compiler. *)

\* the backtick character, which a string of this language cannot hold
BACKTICK == "BACKTICK"

CODE_FONT_FAMILIES == {"Roboto Mono", "Courier New", "Consolas", "monospace"}

\* the named style types, spelled out for the regular expression of getHeadingLevel
TITLE == <<"T", "I", "T", "L", "E">>
SUBTITLE == <<"S", "U", "B", "T", "I", "T", "L", "E">>
NORMAL_TEXT == <<"N", "O", "R", "M", "A", "L", "_", "T", "E", "X", "T">>
HEADING_ == <<"H", "E", "A", "D", "I", "N", "G", "_">>
Digits == <<"0", "1", "2", "3", "4", "5", "6", "7", "8", "9">>
IsDigit(c) == \E i \in 1..Len(Digits) : Digits[i] = c
\* parseInt(d, 10) of one digit
ParseDigit(c) == (CHOOSE i \in 1..Len(Digits) : Digits[i] = c) - 1
HEADING(n) == HEADING_ \o <<Digits[n + 1]>>

\* the parts of a document, as the renderer reads them
TextStyle(bold, italic, strikethrough, underline, link, weightedFontFamily) ==
    [bold |-> bold, italic |-> italic, strikethrough |-> strikethrough,
     underline |-> underline, link |-> link, weightedFontFamily |-> weightedFontFamily]
TextRun(content, textStyle) == [content |-> content, textStyle |-> textStyle]
RunElement(content, textStyle) == [textRun |-> Some(TextRun(content, textStyle))]
Paragraph(elements, namedStyleType, bullet) ==
    [elements |-> elements,
     paragraphStyle |-> Some([namedStyleType |-> namedStyleType]),
     bullet |-> bullet]
Bullet(listId, nestingLevel) == [listId |-> listId, nestingLevel |-> nestingLevel]
ParagraphElement(paragraph) ==
    [paragraph |-> Some(paragraph), table |-> None, sectionBreak |-> FALSE]
TableElement(table) == [paragraph |-> None, table |-> Some(table), sectionBreak |-> FALSE]
SectionBreakElement == [paragraph |-> None, table |-> None, sectionBreak |-> TRUE]
OtherElement == [paragraph |-> None, table |-> None, sectionBreak |-> FALSE]

\* text.replace(/\n$/, '') and text.slice(0, -1) of a text that ends with '\n'
WithoutTrailingNewline(text) ==
    IF EndsWith(text, <<NL>>) THEN SubSeq(text, 1, Len(text) - 1) ELSE text

isCodeStyled(style) ==
    /\ IsSome(style.weightedFontFamily)
    /\ Get(style.weightedFontFamily).fontFamily \in CODE_FONT_FAMILIES

\* Math.min without the cap
Min_First(a, b) == a

Min(a, b) == IF a <= b THEN a ELSE b

\* a conversion that underlines linked runs too
convertTextRun_UnderlinesLinks(textRun) ==
    LET text == IF IsSome(textRun.content) THEN Get(textRun.content) ELSE <<>>
        style == Get(textRun.textStyle)
        content == WithoutTrailingNewline(text)
        emphasized ==
            IF style.bold /\ style.italic THEN <<"*", "*", "*">> \o content \o <<"*", "*", "*">>
            ELSE IF style.bold THEN <<"*", "*">> \o content \o <<"*", "*">>
            ELSE IF style.italic THEN <<"*">> \o content \o <<"*">>
            ELSE content
        struck == IF style.strikethrough
                  THEN <<"~", "~">> \o emphasized \o <<"~", "~">>
                  ELSE emphasized
        underlined == IF style.underline
                      THEN <<"<", "u", ">">> \o struck \o <<"<", "/", "u", ">">>
                      ELSE struck
        linked == IF IsSome(style.link) /\ IsSome(Get(style.link).url)
                     /\ Get(Get(style.link).url) # <<>>
                  THEN <<"[">> \o underlined \o <<"]", "(">> \o Get(Get(style.link).url)
                       \o <<")">>
                  ELSE underlined
    IN IF ~IsSome(textRun.textStyle) THEN text
       ELSE IF isCodeStyled(style)
       THEN IF content # <<>>
            THEN <<BACKTICK>> \o content \o <<BACKTICK>>
                 \o (IF EndsWith(text, <<NL>>) THEN <<NL>> ELSE <<>>)
            ELSE text
       ELSE IF content = <<>> THEN text
       ELSE linked \o (IF EndsWith(text, <<NL>>) THEN <<NL>> ELSE <<>>)

convertTextRun(textRun) ==
    LET text == IF IsSome(textRun.content) THEN Get(textRun.content) ELSE <<>>
        style == Get(textRun.textStyle)
        trailingNewline == EndsWith(text, <<NL>>)
        content == WithoutTrailingNewline(text)
        emphasized ==
            IF style.bold /\ style.italic THEN <<"*", "*", "*">> \o content \o <<"*", "*", "*">>
            ELSE IF style.bold THEN <<"*", "*">> \o content \o <<"*", "*">>
            ELSE IF style.italic THEN <<"*">> \o content \o <<"*">>
            ELSE content
        struck == IF style.strikethrough
                  THEN <<"~", "~">> \o emphasized \o <<"~", "~">>
                  ELSE emphasized
        underlined == IF style.underline /\ ~IsSome(style.link)
                      THEN <<"<", "u", ">">> \o struck \o <<"<", "/", "u", ">">>
                      ELSE struck
        linked == IF IsSome(style.link) /\ IsSome(Get(style.link).url)
                     /\ Get(Get(style.link).url) # <<>>
                  THEN <<"[">> \o underlined \o <<"]", "(">> \o Get(Get(style.link).url)
                       \o <<")">>
                  ELSE underlined
    IN IF ~IsSome(textRun.textStyle) THEN text
       ELSE IF isCodeStyled(style)
       THEN IF content # <<>>
            THEN <<BACKTICK>> \o content \o <<BACKTICK>> \o (IF trailingNewline THEN <<NL>> ELSE <<>>)
            ELSE text
       ELSE IF content = <<>> THEN text
       ELSE linked \o (IF trailingNewline THEN <<NL>> ELSE <<>>)

\* an extraction that stops after the first run
extractFormattedText_FirstRunOnly(elements) ==
    IF elements = <<>> \/ ~IsSome(Head(elements).textRun) THEN <<>>
    ELSE convertTextRun(Get(Head(elements).textRun))

RECURSIVE extractFormattedText(_)
extractFormattedText(elements) ==
    IF elements = <<>> THEN <<>>
    ELSE (IF IsSome(Head(elements).textRun)
          THEN convertTextRun(Get(Head(elements).textRun))
          ELSE <<>>)
         \o extractFormattedText(Tail(elements))

\* getHeadingLevel of docsToMarkdown.ts: the level of the paragraph's named style
getParagraphHeadingLevel(paragraph) ==
    LET styleType == IF IsSome(paragraph.paragraphStyle)
                     THEN Get(paragraph.paragraphStyle).namedStyleType
                     ELSE None
        name == Get(styleType)
    IN IF ~IsSome(styleType) \/ name = <<>> THEN None
       ELSE IF name = TITLE THEN Some(1)
       ELSE IF name = SUBTITLE THEN Some(2)
       ELSE IF /\ Len(name) = Len(HEADING_) + 1
               /\ SubSeq(name, 1, Len(HEADING_)) = HEADING_
               /\ IsDigit(name[Len(name)])
       THEN Some(ParseDigit(name[Len(name)]))
       ELSE None

\* a detection that takes any glyph type that is set for an ordered one
getListInfo_AnyGlyphType(paragraph, lists) ==
    IF ~IsSome(paragraph.bullet) THEN None
    ELSE LET bullet == Get(paragraph.bullet)
             nestingLevel == IF IsSome(bullet.nestingLevel) THEN Get(bullet.nestingLevel) ELSE 0
             listId == bullet.listId
             entry == lists[Get(listId)]
             nestingLevels == Get(Get(entry.listProperties).nestingLevels)
             level == nestingLevels[nestingLevel + 1]
             ordered ==
                 /\ IsSome(listId) /\ Get(listId) # ""
                 /\ Get(listId) \in DOMAIN lists
                 /\ IsSome(entry.listProperties)
                 /\ IsSome(Get(entry.listProperties).nestingLevels)
                 /\ nestingLevel + 1 \in 1..Len(nestingLevels)
                 /\ IsSome(level.glyphType)
         IN Some([ordered |-> ordered, nestingLevel |-> nestingLevel])

getListInfo(paragraph, lists) ==
    IF ~IsSome(paragraph.bullet) THEN None
    ELSE LET bullet == Get(paragraph.bullet)
             nestingLevel == IF IsSome(bullet.nestingLevel) THEN Get(bullet.nestingLevel) ELSE 0
             listId == bullet.listId
             entry == lists[Get(listId)]
             nestingLevels == Get(Get(entry.listProperties).nestingLevels)
             level == nestingLevels[nestingLevel + 1]
             ordered ==
                 /\ IsSome(listId) /\ Get(listId) # ""
                 /\ Get(listId) \in DOMAIN lists
                 /\ IsSome(entry.listProperties)
                 /\ IsSome(Get(entry.listProperties).nestingLevels)
                 /\ nestingLevel + 1 \in 1..Len(nestingLevels)
                 /\ IsSome(level.glyphType) /\ Get(level.glyphType) # ""
                 /\ Get(level.glyphType) # "GLYPH_TYPE_UNSPECIFIED"
         IN Some([ordered |-> ordered, nestingLevel |-> nestingLevel])

convertParagraph(paragraph, lists) ==
    LET headingLevel == getParagraphHeadingLevel(paragraph)
        listInfo == getListInfo(paragraph, lists)
        elements == IF IsSome(paragraph.elements) THEN Get(paragraph.elements) ELSE <<>>
        text == extractFormattedText(elements)
    IN IF IsSome(headingLevel) /\ Get(headingLevel) # 0 /\ Trim(text) # <<>>
       THEN Repeat("#", Min(Get(headingLevel), 6)) \o <<SP>> \o Trim(text) \o <<NL, NL>>
       ELSE IF IsSome(listInfo) /\ Trim(text) # <<>>
       THEN Repeat(SP, 2 * Get(listInfo).nestingLevel)
            \o (IF Get(listInfo).ordered THEN <<"1", ".">> ELSE <<"-">>)
            \o <<SP>> \o Trim(text) \o <<NL>>
       ELSE IF Trim(text) # <<>> THEN Trim(text) \o <<NL, NL>>
       ELSE <<NL>>

\* content.replace(/\n/g, ' ')
ReplaceNewlines(text) == [i \in 1..Len(text) |-> IF text[i] = NL THEN SP ELSE text[i]]

RECURSIVE CellRunsText(_)
CellRunsText(elements) ==
    IF elements = <<>> THEN <<>>
    ELSE LET pe == Head(elements)
         IN (IF /\ IsSome(pe.textRun) /\ IsSome(Get(pe.textRun).content)
                /\ Get(Get(pe.textRun).content) # <<>>
             THEN Trim(ReplaceNewlines(Get(Get(pe.textRun).content)))
             ELSE <<>>)
            \o CellRunsText(Tail(elements))

RECURSIVE CellContentText(_)
CellContentText(content) ==
    IF content = <<>> THEN <<>>
    ELSE LET element == Head(content)
         IN (IF IsSome(element.paragraph) /\ IsSome(Get(element.paragraph).elements)
             THEN CellRunsText(Get(Get(element.paragraph).elements))
             ELSE <<>>)
            \o CellContentText(Tail(content))

extractCellText(cell) ==
    IF ~IsSome(cell.content) THEN <<>> ELSE CellContentText(Get(cell.content))

RECURSIVE RowText(_)
RowText(tableCells) ==
    IF tableCells = <<>> THEN <<>>
    ELSE <<SP>> \o extractCellText(Head(tableCells)) \o <<SP, "|">>
         \o RowText(Tail(tableCells))

\* a separator of one cell, whatever the width of the row
Separator_OneCell(n) == <<SP, "-", "-", "-", SP, "|">>

RECURSIVE Separator(_)
Separator(n) == IF n = 0 THEN <<>> ELSE <<SP, "-", "-", "-", SP, "|">> \o Separator(n - 1)

\* the loop of convertTable over the rows, isFirstRow being its local
RECURSIVE convertRows(_, _)
convertRows(tableRows, isFirstRow) ==
    IF tableRows = <<>> THEN <<>>
    ELSE LET row == Head(tableRows)
         IN IF ~IsSome(row.tableCells) THEN convertRows(Tail(tableRows), isFirstRow)
            ELSE <<"|">> \o RowText(Get(row.tableCells)) \o <<NL>>
                 \o (IF isFirstRow
                     THEN <<"|">> \o Separator(Len(Get(row.tableCells))) \o <<NL>>
                     ELSE <<>>)
                 \o convertRows(Tail(tableRows), FALSE)

convertTable(table) ==
    IF ~IsSome(table.tableRows) \/ Get(table.tableRows) = <<>> THEN <<>>
    ELSE <<NL>> \o convertRows(Get(table.tableRows), TRUE) \o <<NL>>

\* what one turn of the loop of docsJsonToMarkdown appends
convertElement(element, lists) ==
    IF IsSome(element.paragraph) THEN convertParagraph(Get(element.paragraph), lists)
    ELSE IF IsSome(element.table) THEN convertTable(Get(element.table))
    ELSE IF element.sectionBreak THEN <<NL, "-", "-", "-", NL, NL>>
    ELSE <<>>

\* `body?.content`
HasContent(doc) == IF IsSome(doc.body) THEN IsSome(Get(doc.body).content) ELSE FALSE
\* body.content, where the body has one
Content(doc) == Get(Get(doc.body).content)
\* `docData.lists ?? {}`
Lists(doc) == IF IsSome(doc.lists) THEN Get(doc.lists) ELSE <<>>

\* docsJsonToMarkdown is called with a document whose body holds no content: `return ''`
RenderNothing ==
    /\ pc = "render"
    /\ ~HasContent(docData)
    /\ rendered' = <<>>
    /\ pc' = "rendered"
    /\ UNCHANGED <<docData, pieces>>
    /\ UNCHANGED compileVars

\* one turn of the loop `for (const element of body.content)`
RenderElement(element) ==
    /\ pc = "render"
    /\ HasContent(docData)
    /\ LET piece == convertElement(element, Lists(docData))
       IN /\ rendered' = rendered \o piece
          /\ pieces' = Append(pieces, piece)
    /\ docData' = [docData EXCEPT
                      !.body = Some([content |-> Some(Append(Content(docData), element))])]
    /\ UNCHANGED pc
    /\ UNCHANGED compileVars

RenderParagraph(paragraphs) ==
    \E paragraph \in paragraphs : RenderElement(ParagraphElement(paragraph))
RenderTable(tables) == \E table \in tables : RenderElement(TableElement(table))
RenderSectionBreak == RenderElement(SectionBreakElement)
RenderOther == RenderElement(OtherElement)

\* the end of the loop: `return markdown.trim()`
ReturnMarkdown ==
    /\ pc = "render"
    /\ HasContent(docData)
    /\ rendered' = Trim(rendered)
    /\ pc' = "rendered"
    /\ UNCHANGED <<docData, pieces>>
    /\ UNCHANGED compileVars

\* the call of docsJsonToMarkdown with a document of the bodies and the registry given;
\* no markdown is being compiled
InitRender(bodies, registries) ==
    /\ markdown = Empty
    /\ startIndex = 1
    /\ context = NewContext(1, None, FALSE)
    /\ pc = "render"
    /\ result = <<>>
    /\ mergedListRanges = <<>>
    /\ outsideInserts = {}
    /\ closedHeadings = <<>>
    /\ nesting = <<>>
    /\ tokens = <<>>
    /\ \E body \in bodies, lists \in registries : docData = [body |-> body, lists |-> lists]
    /\ rendered = <<>>
    /\ pieces = <<>>

\* the bodies a call starts with: none, one without content, one whose content is read
NoContent == Some([content |-> None])
EmptyBody == Some([content |-> Some(<<>>)])
Bodies == {None, NoContent, EmptyBody}

\* ---------------------------------------------------------------- rendered runs

MaxRunParagraphs == 1   \* elements of one document, where text runs are explored

Flags == BOOLEAN \X BOOLEAN \X BOOLEAN \X BOOLEAN
Links == {None, Some([url |-> None]), Some([url |-> Some(<<"u">>)])}
Font(fontFamily) == Some([fontFamily |-> fontFamily])

\* styles of runs in fonts that are not code fonts: every flag with every link
ProseStyles ==
    {TextStyle(f[1], f[2], f[3], f[4], link, font) :
        f \in Flags, link \in Links, font \in {None, Font("Arial")}}
\* styles of runs in each of the code fonts, bare and with flags and links
CodeStyles ==
    {TextStyle(b, b, b, underline, link, Font(fontFamily)) :
        b \in BOOLEAN, underline \in {TRUE}, link \in {None, Some([url |-> Some(<<"u">>)])},
        fontFamily \in CODE_FONT_FAMILIES}
RunContents == {None, Some(<<>>), Some(<<NL>>), Some(<<"a">>), Some(<<"a", SP, "b", NL>>)}
Runs ==
    {TextRun(content, textStyle) :
        content \in RunContents,
        textStyle \in {None} \cup {Some(style) : style \in ProseStyles \cup CodeStyles}}
\* paragraphs of normal text that hold one run
RunParagraphs ==
    {Paragraph(Some(<<[textRun |-> Some(run)]>>), Some(NORMAL_TEXT), None) : run \in Runs}

RunsBounded == Len(pieces) < MaxRunParagraphs

NextRuns ==
    \/ RenderNothing
    \/ RunsBounded /\ RenderParagraph(RunParagraphs)
    \/ ReturnMarkdown

SpecRuns == InitRender(Bodies, {None}) /\ [][NextRuns]_vars

\* ---------------------------------------------------------------- rendered list items

MaxListParagraphs == 2   \* elements of one document, where list items are explored

\* a descriptor of one nesting level of a list
Level(glyphType, glyphSymbol) == [glyphType |-> glyphType, glyphSymbol |-> glyphSymbol]
Decimal == Level(Some("DECIMAL"), None)
Disc == Level(None, Some("disc"))
ListOf(nestingLevels) == [listProperties |-> Some([nestingLevels |-> Some(nestingLevels)])]

\* the `lists` of a document: lists of numbers, of symbols, of both, of one level only,
\* without properties, and with a glyph type that is unspecified or empty
ListRegistry ==
    [id \in {"numbers", "symbols", "mixed", "short", "bare", "unspecified", "empty"} |->
        CASE id = "numbers" -> ListOf(<<Decimal, Level(Some("ALPHA"), None)>>)
          [] id = "symbols" -> ListOf(<<Disc, Disc>>)
          [] id = "mixed" -> ListOf(<<Disc, Decimal>>)
          [] id = "short" -> ListOf(<<Decimal>>)
          [] id = "bare" -> [listProperties |-> None]
          [] id = "unspecified" ->
                ListOf(<<Level(Some("GLYPH_TYPE_UNSPECIFIED"), Some("disc")), Decimal>>)
          [] id = "empty" -> ListOf(<<Level(Some(""), None), Disc>>)]

ListIds == {None} \cup {Some(id) : id \in DOMAIN ListRegistry \cup {"missing"}}
Bullets_ ==
    {None} \cup {Some(Bullet(listId, nestingLevel)) :
                    listId \in ListIds, nestingLevel \in {None, Some(0), Some(1)}}
PlainRun(text) == [textRun |-> Some(TextRun(Some(text), None))]
\* paragraphs of normal text, with and without a bullet, with text and without
ListParagraphs ==
    {Paragraph(Some(<<PlainRun(text)>>), Some(NORMAL_TEXT), bullet) :
        text \in {<<"a", NL>>, <<NL>>}, bullet \in Bullets_}

ListItemsBounded == Len(pieces) < MaxListParagraphs

NextListItems ==
    \/ RenderNothing
    \/ ListItemsBounded /\ RenderParagraph(ListParagraphs)
    \/ ReturnMarkdown

SpecListItems == InitRender(Bodies, {None, Some(ListRegistry)}) /\ [][NextListItems]_vars

\* ---------------------------------------------------------------- rendered headings

MaxHeadingParagraphs == 2   \* elements of one document, where headings are explored

\* named style types: none, normal text, title, subtitle and headings up to the largest
\* digit the regular expression takes
NamedStyleTypes ==
    {None, Some(NORMAL_TEXT), Some(TITLE), Some(SUBTITLE)}
        \cup {Some(HEADING(n)) : n \in {1, 2, 6, 7, 9}}
\* paragraphs of each style, with and without a bullet, with text, with bold text and
\* with no text but whitespace
HeadingParagraphs ==
    {Paragraph(Some(<<run>>), namedStyleType, bullet) :
        run \in {PlainRun(<<"a", SP, "b", NL>>), PlainRun(<<NL>>), PlainRun(<<SP, NL>>),
                 RunElement(Some(<<"a", NL>>),
                            Some(TextStyle(TRUE, FALSE, FALSE, FALSE, None, None)))},
        namedStyleType \in NamedStyleTypes,
        bullet \in {None, Some(Bullet(Some("numbers"), Some(1)))}}

RenderedHeadingsBounded == Len(pieces) < MaxHeadingParagraphs

NextRenderedHeadings ==
    \/ RenderNothing
    \/ RenderedHeadingsBounded /\ RenderParagraph(HeadingParagraphs)
    \/ ReturnMarkdown

SpecRenderedHeadings ==
    InitRender(Bodies, {Some(ListRegistry)}) /\ [][NextRenderedHeadings]_vars

\* ---------------------------------------------------------------- rendered tables

MaxTableElements == 2   \* elements of one document, where tables are explored

\* cells: of one paragraph, of two paragraphs the first of which holds a line break, and
\* without content
Cell(content) == [content |-> content]
CellParagraph(text) ==
    ParagraphElement(Paragraph(Some(<<PlainRun(text)>>), Some(NORMAL_TEXT), None))
CellA == Cell(Some(<<CellParagraph(<<"a", NL>>)>>))
CellB == Cell(Some(<<CellParagraph(<<"b", NL, "c", NL>>), CellParagraph(<<SP, "d", NL>>)>>))
Row(tableCells) == [tableCells |-> Some(tableCells)]
Rows == {Row(<<>>), Row(<<CellA>>), Row(<<CellA, CellB>>), Row(<<Cell(None), CellA>>)}
\* tables without rows, and of one, two and three rows of any widths
Tables ==
    {[tableRows |-> None], [tableRows |-> Some(<<>>)]}
        \cup {[tableRows |-> Some(<<r>>)] : r \in Rows}
        \cup {[tableRows |-> Some(<<r, s>>)] : r, s \in Rows}
        \cup {[tableRows |-> Some(<<r, Row(<<>>), r>>)] : r \in Rows}
TableParagraphs == {Paragraph(Some(<<PlainRun(<<"a", NL>>)>>), Some(NORMAL_TEXT), None)}

TablesBounded == Len(pieces) < MaxTableElements

NextTables ==
    \/ RenderNothing
    \/ TablesBounded /\ RenderTable(Tables)
    \/ TablesBounded /\ RenderParagraph(TableParagraphs)
    \/ TablesBounded /\ RenderSectionBreak
    \/ TablesBounded /\ RenderOther
    \/ ReturnMarkdown

SpecTables == InitRender(Bodies, {None}) /\ [][NextTables]_vars

\* ---------------------------------------------------------------- the round trip

(* The document that the compiled requests make of an empty document, as the Docs service
   applies them: the inserts in order, then the text styles, the paragraph styles and
   the bullets.  A position of the document is its index, the document starting at 1. *)

MaxRoundTripTokens == 13    \* tokens of one call, where the round trip is explored
MaxRoundTripInserts == 5   \* insert requests of one call, where the round trip is explored

\* one character of the document, with the styles of its run and of its paragraph
Character(c) ==
    [ch |-> c, bold |-> FALSE, italic |-> FALSE, strikethrough |-> FALSE,
     fontFamily |-> None, linkUrl |-> None, namedStyleType |-> None, bullet |-> None]

\* the paragraph of a position: from after the newline before it to the newline after it
ParagraphStart(chars, p) ==
    IF \E q \in 1..(p - 1) : chars[q].ch = NL
    THEN 1 + CHOOSE q \in 1..(p - 1) :
                 chars[q].ch = NL /\ \A r \in (q + 1)..(p - 1) : chars[r].ch # NL
    ELSE 1
ParagraphEnd(chars, p) ==
    IF \E q \in p..Len(chars) : chars[q].ch = NL
    THEN CHOOSE q \in p..Len(chars) : chars[q].ch = NL /\ \A r \in p..(q - 1) : chars[r].ch # NL
    ELSE Len(chars)
\* the positions of the paragraphs that the range [startIndex, endIndex) touches
InParagraphsOf(chars, range) ==
    {p \in 1..Len(chars) :
        /\ ParagraphStart(chars, p) < range.endIndex
        /\ ParagraphEnd(chars, p) >= range.startIndex}

ApplyInsertText(chars, request) ==
    SubSeq(chars, 1, request.location.index - 1)
    \o [i \in 1..Len(request.text) |-> Character(request.text[i])]
    \o SubSeq(chars, request.location.index, Len(chars))

ApplyUpdateTextStyle(chars, request) ==
    LET style == request.textStyle
        Styled(char) ==
            [char EXCEPT
                !.bold = IF IsSome(style.bold) THEN Get(style.bold) ELSE @,
                !.italic = IF IsSome(style.italic) THEN Get(style.italic) ELSE @,
                !.strikethrough = IF IsSome(style.strikethrough)
                                  THEN Get(style.strikethrough) ELSE @,
                !.fontFamily = IF IsSome(style.fontFamily) THEN style.fontFamily ELSE @,
                !.linkUrl = IF IsSome(style.linkUrl) THEN style.linkUrl ELSE @]
    IN [p \in 1..Len(chars) |->
           IF request.range.startIndex <= p /\ p < request.range.endIndex
           THEN Styled(chars[p])
           ELSE chars[p]]

\* a named style goes to every paragraph the range touches; a border changes no text
ApplyUpdateParagraphStyle(chars, request) ==
    IF "namedStyleType" \in DOMAIN request.paragraphStyle
    THEN [p \in 1..Len(chars) |->
             IF p \in InParagraphsOf(chars, request.range)
             THEN [chars[p] EXCEPT !.namedStyleType = request.paragraphStyle.namedStyleType]
             ELSE chars[p]]
    ELSE chars

IsLeadingTab(chars, p) == \A q \in ParagraphStart(chars, p)..p : chars[q].ch = TAB
LeadingTabs(chars, p) ==
    Cardinality({q \in ParagraphStart(chars, p)..ParagraphEnd(chars, p) :
                    IsLeadingTab(chars, q)})

\* createParagraphBullets: every paragraph the range touches becomes an item of a new
\* list, nested by the tabs it starts with, and loses these tabs
ApplyCreateParagraphBullets(chars, request, listId) ==
    LET touched == InParagraphsOf(chars, request.range)
        kept == SelectSeq([p \in 1..Len(chars) |-> p],
                          LAMBDA p : ~(p \in touched /\ IsLeadingTab(chars, p)))
    IN [k \in 1..Len(kept) |->
           IF kept[k] \in touched
           THEN [chars[kept[k]] EXCEPT
                    !.bullet = Some(Bullet(Some(listId), Some(LeadingTabs(chars, kept[k]))))]
           ELSE chars[kept[k]]]

\* the requests from the k-th on, applied in order
RECURSIVE ApplyRequests(_, _, _)
ApplyRequests(chars, requests, k) ==
    IF k > Len(requests) THEN chars
    ELSE LET request == requests[k]
         IN ApplyRequests(
                CASE request.kind = "insertText" -> ApplyInsertText(chars, request)
                  [] request.kind = "updateTextStyle" -> ApplyUpdateTextStyle(chars, request)
                  [] request.kind = "updateParagraphStyle" ->
                        ApplyUpdateParagraphStyle(chars, request)
                  [] request.kind = "createParagraphBullets" ->
                        ApplyCreateParagraphBullets(chars, request, ToString(k)),
                requests, k + 1)

\* the list that a bullet request makes: three levels of the glyphs of its preset
ListOfPreset(bulletPreset) ==
    LET level == IF bulletPreset = "NUMBERED_DECIMAL_ALPHA_ROMAN"
                 THEN [glyphType |-> Some("DECIMAL"), glyphSymbol |-> None]
                 ELSE [glyphType |-> Some("GLYPH_TYPE_UNSPECIFIED"),
                       glyphSymbol |-> Some("disc")]
    IN [listProperties |-> Some([nestingLevels |-> Some(<<level, level, level>>)])]

ListsOfRequests(requests) ==
    LET bullets == {k \in 1..Len(requests) : requests[k].kind = "createParagraphBullets"}
    IN [id \in {ToString(k) : k \in bullets} |->
           ListOfPreset(requests[CHOOSE k \in bullets : ToString(k) = id].bulletPreset)]

\* the named style type of the requests, spelled out
NamedStyleTypeOf(name) ==
    IF name = None THEN NORMAL_TEXT
    ELSE IF name = Some("TITLE") THEN TITLE
    ELSE HEADING(CHOOSE n \in 1..9 : name = Some(NamedStyleOfLevel(n)))

SameRun(a, b) ==
    /\ a.bold = b.bold /\ a.italic = b.italic /\ a.strikethrough = b.strikethrough
    /\ a.fontFamily = b.fontFamily /\ a.linkUrl = b.linkUrl

\* the runs of a paragraph: the longest stretches of characters of one style
RECURSIVE TextRunsOf(_)
TextRunsOf(chars) ==
    IF chars = <<>> THEN <<>>
    ELSE LET first == chars[1]
             n == CHOOSE n \in 1..Len(chars) :
                      /\ \A q \in 1..n : SameRun(chars[q], first)
                      /\ n = Len(chars) \/ ~SameRun(chars[n + 1], first)
         IN <<RunElement(
                Some([q \in 1..n |-> chars[q].ch]),
                Some(TextStyle(first.bold, first.italic, first.strikethrough, FALSE,
                               IF IsSome(first.linkUrl)
                               THEN Some([url |-> Some(<<Get(first.linkUrl)>>)])
                               ELSE None,
                               IF IsSome(first.fontFamily)
                               THEN Some([fontFamily |-> Get(first.fontFamily)])
                               ELSE None)))>>
            \o TextRunsOf(SubSeq(chars, n + 1, Len(chars)))

RECURSIVE ParagraphsFrom(_, _)
ParagraphsFrom(chars, p) ==
    IF p > Len(chars) THEN <<>>
    ELSE <<ParagraphElement(
              Paragraph(Some(TextRunsOf(SubSeq(chars, p, ParagraphEnd(chars, p)))),
                        Some(NamedStyleTypeOf(chars[p].namedStyleType)),
                        chars[p].bullet))>>
         \o ParagraphsFrom(chars, ParagraphEnd(chars, p) + 1)

\* the document model synthesized from a compiled operation set
Synthesized(requests) ==
    [body |-> Some([content |-> Some(ParagraphsFrom(ApplyRequests(<<>>, requests, 1), 1))]),
     lists |-> Some(ListsOfRequests(requests))]

\* what the loop of docsJsonToMarkdown appends for each element of a document
PiecesOf(doc) ==
    IF HasContent(doc)
    THEN [i \in 1..Len(Content(doc)) |-> convertElement(Content(doc)[i], Lists(doc))]
    ELSE <<>>

\* docsJsonToMarkdown as a function of the whole document
docsJsonToMarkdown(doc) == IF HasContent(doc) THEN Trim(Flatten(PiecesOf(doc))) ELSE <<>>

\* the call has returned its requests: the document they make is rendered
RoundTrip ==
    /\ pc = "done"
    /\ docData' = Synthesized(result)
    /\ pieces' = PiecesOf(docData')
    /\ rendered' = docsJsonToMarkdown(docData')
    /\ pc' = "rendered"
    /\ UNCHANGED compileVars

\* the inline contents offered to the headings and paragraphs of the round trip: each
\* letter stands in one text only
RoundTripChildren ==
    {<<TextTok("text", <<"a", SP, "b">>)>>,
     <<TextTok("text", <<"[", "x", "]", SP, "c">>)>>,
     <<Tok("strong_open"), TextTok("text", <<"d">>), Tok("strong_close"),
       TextTok("text", <<"e">>)>>,
     <<Token("link_open", <<>>, None, Some("u"), <<>>), TextTok("code_inline", <<"f">>),
       Tok("link_close")>>}

RoundTripBounded ==
    /\ Len(tokens) < MaxRoundTripTokens
    /\ Len(context.insertRequests) < MaxRoundTripInserts
    /\ Len(context.listStack) <= 2
    /\ Len(context.pendingListItems) <= 2

NextRoundTrip ==
    \/ RoundTripBounded /\ HeadingOpen({2})
    \/ RoundTripBounded /\ HeadingClose({2})
    \/ RoundTripBounded /\ ParagraphOpen
    \/ RoundTripBounded /\ Inline(RoundTripChildren)
    \/ RoundTripBounded /\ ParagraphClose
    \/ RoundTripBounded /\ CodeBlock({"fence"}, {<<"g", NL, NL, "h", NL>>})
    \/ RoundTripBounded /\ Hr
    \/ RoundTripBounded /\ BulletListOpen
    \/ RoundTripBounded /\ BulletListClose
    \/ RoundTripBounded /\ ListItemOpen
    \/ RoundTripBounded /\ ListItemClose
    \/ Return
    \/ RoundTrip

SpecRoundTrip == InitWith({1}, {None}, {FALSE}, <<>>) /\ [][NextRoundTrip]_vars

\* ---------------------------------------------------------------- formatting tokens

MaxFormattingTokens == 4   \* tokens of one call, where the formatting stack is explored

FormattingBounded == Len(tokens) < MaxFormattingTokens

\* the opening and closing tokens of inline formatting, in any order
NextFormatting ==
    \/ FormattingBounded /\ StrongOpen
    \/ FormattingBounded /\ StrongClose
    \/ FormattingBounded /\ EmOpen
    \/ FormattingBounded /\ EmClose
    \/ FormattingBounded /\ SOpen
    \/ FormattingBounded /\ SClose
    \/ FormattingBounded /\ LinkOpen
    \/ FormattingBounded /\ LinkClose
    \/ FormattingBounded /\ Text({Letters})
    \/ Return

SpecFormatting == InitWith({1}, {None}, {FALSE}, AnyOrder) /\ [][NextFormatting]_vars

\* ---------------------------------------------------------------- text emission

MaxEmissionTokens == 4   \* tokens of one call, where the emission of text is explored

EmissionBounded == Len(tokens) < MaxEmissionTokens

\* links to two places, so that a link opened inside a link shows which of them is kept
EmissionHrefs == {Some("u"), Some("v")}
LinkOpenTo(hrefs) == \E href \in hrefs : Step(Token("link_open", <<>>, None, href, <<>>))

\* text, breaks and formatting tokens in any order, inside a list item and outside
NextEmission ==
    \/ EmissionBounded /\ BulletListOpen
    \/ EmissionBounded /\ ListItemOpen
    \/ EmissionBounded /\ StrongOpen
    \/ EmissionBounded /\ StrongClose
    \/ EmissionBounded /\ LinkOpenTo(EmissionHrefs)
    \/ EmissionBounded /\ Text({Letters, BarePrefix})
    \/ EmissionBounded /\ Softbreak
    \/ EmissionBounded /\ Hardbreak
    \/ Return

SpecEmission == InitWith({1}, {None}, {FALSE}, AnyOrder) /\ [][NextEmission]_vars

\* ---------------------------------------------------------------- horizontal rules

MaxRuleTokens == 12   \* tokens of one call, where horizontal rules are explored
MaxRules == 2         \* hr tokens of one call, where horizontal rules are explored

RulesBounded == Len(tokens) < MaxRuleTokens
MoreRules == Len(context.hrRanges) < MaxRules

\* rules between paragraphs, at the start of the document and inside list items
NextRules ==
    \/ RulesBounded /\ ParagraphOpen
    \/ RulesBounded /\ Inline({<<TextTok("text", Letters)>>})
    \/ RulesBounded /\ ParagraphClose
    \/ RulesBounded /\ MoreRules /\ Hr
    \/ RulesBounded /\ BulletListOpen
    \/ RulesBounded /\ BulletListClose
    \/ RulesBounded /\ ListItemOpen
    \/ RulesBounded /\ ListItemClose
    \/ Return

SpecRules == InitWith(StartIndexes, {None}, {FALSE}, <<>>) /\ [][NextRules]_vars

\* ---------------------------------------------------------------- code blocks

MaxCodeTokens == 5   \* tokens of one call, where code blocks are explored

CodeBounded == Len(tokens) < MaxCodeTokens

\* contents of fences and indented code blocks: empty, of one line with and without its
\* newline, of a line of two characters, of empty lines only, with an empty line inside
BlockContents ==
    {<<>>, <<"a">>, <<"a", NL>>, <<"a", "b", NL>>, <<NL>>, <<NL, NL>>, <<"a", NL, NL, "b", NL>>}

\* code blocks at the start of the document, after paragraphs and after one another
NextCodeBlocks ==
    \/ CodeBounded /\ ParagraphOpen
    \/ CodeBounded /\ Inline({<<TextTok("text", Letters)>>})
    \/ CodeBounded /\ ParagraphClose
    \/ CodeBounded /\ CodeBlock({"fence", "code_block"}, BlockContents)
    \/ Return

SpecCodeBlocks == InitWith(StartIndexes, {None}, {FALSE}, <<>>) /\ [][NextCodeBlocks]_vars

\* ---------------------------------------------------------------- properties

Inserts == context.insertRequests

RECURSIVE TotalLength(_, _)
TotalLength(requests, n) ==
    IF n = 0 THEN 0 ELSE Len(requests[n].text) + TotalLength(requests, n - 1)

IsRangeRequest(request) == request.kind # "insertText"
IsTextStyle(request) == request.kind = "updateTextStyle"
IsHeadingStyle(request) ==
    request.kind = "updateParagraphStyle" /\ "namedStyleType" \in DOMAIN request.paragraphStyle
IsBorder(request) ==
    request.kind = "updateParagraphStyle" /\ "borderBottom" \in DOMAIN request.paragraphStyle
IsBullet(request) == request.kind = "createParagraphBullets"

\* C1: every InsertText is located at startIndex plus the lengths of the texts inserted
\* before it, and the cursor stands at startIndex plus the lengths of all texts inserted
C1_CursorFollowsInserts ==
    /\ \A i \in 1..Len(Inserts) :
          Inserts[i].location.index = startIndex + TotalLength(Inserts, i - 1)
    /\ context.currentIndex = startIndex + TotalLength(Inserts, Len(Inserts))
    /\ pc = "done" =>
          \A i \in 1..Len(result) :
              result[i].kind = "insertText" =>
                  result[i].location.index = startIndex + TotalLength(result, i - 1)

C1_Witness ==
    /\ pc = "done"
    /\ startIndex = 4
    /\ Len(Inserts) >= 4
    /\ \E i \in 1..Len(Inserts) : Len(Inserts[i].text) > 1
    /\ context.currentIndex > startIndex + Len(Inserts)

\* the place of a request in the fixed order of the formatting requests
Phase(request) ==
    CASE IsTextStyle(request) -> 1
      [] IsHeadingStyle(request) -> 2
      [] IsBorder(request) -> 3
      [] IsBullet(request) -> 4

\* the textRanges entry a text-style request was made for
RangeIndex(request) ==
    CHOOSE k \in 1..Len(context.textRanges) :
        /\ context.textRanges[k].startIndex = request.range.startIndex
        /\ context.textRanges[k].endIndex = request.range.endIndex

IsLinkStyle(request) == IsTextStyle(request) /\ request.textStyle.linkUrl # None

\* C2: the returned list is the InsertText requests in the order of their generation, then
\* the formatting requests: text styles (range by range, decoration before link), heading
\* styles, horizontal-rule borders, bullets; no InsertText follows a formatting request
C2_InsertsThenFormatsInOrder ==
    pc = "done" =>
        LET n == Len(Inserts)
        IN /\ Len(result) >= n
           /\ SubSeq(result, 1, n) = Inserts
           /\ \A i \in 1..n : result[i].kind = "insertText"
           /\ \A i \in (n + 1)..Len(result) : IsRangeRequest(result[i])
           /\ \A i, j \in (n + 1)..Len(result) :
                 i < j =>
                    /\ Phase(result[i]) <= Phase(result[j])
                    /\ IsTextStyle(result[i]) /\ IsTextStyle(result[j]) =>
                          \/ RangeIndex(result[i]) < RangeIndex(result[j])
                          \/ /\ RangeIndex(result[i]) = RangeIndex(result[j])
                             /\ ~IsLinkStyle(result[i])
                             /\ IsLinkStyle(result[j])

C2_Witness ==
    /\ pc = "done"
    /\ \E i, j \in 1..Len(result) :
          /\ i < j
          /\ IsTextStyle(result[i]) /\ ~IsLinkStyle(result[i])
          /\ IsLinkStyle(result[j])
          /\ result[i].range = result[j].range
    /\ \E i \in 1..Len(result) : IsHeadingStyle(result[i])
    /\ \E i \in 1..Len(result) : IsBorder(result[i])
    /\ \E i \in 1..Len(result) : IsBullet(result[i])

\* C3: no request of the returned list has a zero-length range: the end of the range of
\* every text-style, paragraph-style and bullet request is greater than its start
C3_NoZeroLengthRange ==
    pc = "done" =>
        \A i \in 1..Len(result) :
            IsRangeRequest(result[i]) => result[i].range.endIndex > result[i].range.startIndex

Items == context.pendingListItems
Bullets == SelectSeq(result, IsBullet)

\* the largest end offset of the first n members of a merged range
RECURSIVE LargestEnd(_, _)
LargestEnd(members, n) ==
    IF n = 1 THEN Get(Items[members[1]].endIndex)
    ELSE LET rest == LargestEnd(members, n - 1)
             own == Get(Items[members[n]].endIndex)
         IN IF own > rest THEN own ELSE rest

C6_BulletsDoNotCoverOutsideContent ==
    pc = "done" =>
        \A i \in outsideInserts :
            \A b \in 1..Len(Bullets) :
                ~(Bullets[b].range.startIndex <= i /\ i < Bullets[b].range.endIndex)

\* two lists of one preset with content between them: two bullet requests, the content
\* located after the one and before the other
C6_Witness ==
    /\ pc = "done"
    /\ \E a, b \in 1..Len(Bullets) :
          /\ Bullets[a].bulletPreset = Bullets[b].bulletPreset
          /\ \E i \in outsideInserts :
                Bullets[a].range.endIndex <= i /\ i < Bullets[b].range.startIndex

HeadingStyles == SelectSeq(result, IsHeadingStyle)

\* the named style a closed heading is to be given: the k-th heading closed in the call
StyleOfClosed(k) ==
    IF /\ context.firstHeadingAsTitle
       /\ closedHeadings[k] = 1
       /\ \A j \in 1..(k - 1) : closedHeadings[j] # 1
    THEN "TITLE"
    ELSE NamedStyleOfLevel(closedHeadings[k])

\* C8: the headings closed in a call are given, in their order, one paragraph-style
\* request each, of named style TITLE when firstHeadingAsTitle is on, the level is 1 and
\* no heading of level 1 was closed before, and of named style HEADING_<level> otherwise;
\* so at most one TITLE is emitted, none when the option is off
C8_TitleOnlyForFirstLevelOne ==
    pc = "done" =>
        /\ Len(HeadingStyles) = Len(closedHeadings)
        /\ Len(context.paragraphRanges) = Len(closedHeadings)
        /\ \A k \in 1..Len(closedHeadings) :
              /\ context.paragraphRanges[k].namedStyleType = Some(StyleOfClosed(k))
              /\ HeadingStyles[k].paragraphStyle.namedStyleType = Some(StyleOfClosed(k))
              /\ HeadingStyles[k].range.startIndex = context.paragraphRanges[k].startIndex
        /\ Cardinality({k \in 1..Len(HeadingStyles) :
               HeadingStyles[k].paragraphStyle.namedStyleType = Some("TITLE")}) <= 1
        /\ ~context.firstHeadingAsTitle =>
              \A k \in 1..Len(HeadingStyles) :
                  HeadingStyles[k].paragraphStyle.namedStyleType # Some("TITLE")

\* with the option on, a heading of level 2, then two of level 1: HEADING_2, TITLE, HEADING_1
C8_Witness ==
    /\ pc = "done"
    /\ context.firstHeadingAsTitle
    /\ closedHeadings = <<2, 1, 1>>
    /\ HeadingStyles[2].paragraphStyle.namedStyleType = Some("TITLE")
    /\ HeadingStyles[3].paragraphStyle.namedStyleType = Some("HEADING_1")

\* whether a token is a list_item_open or an inline token that holds one
OpensListItem(token) ==
    \/ token.type = "list_item_open"
    \/ \E c \in 1..Len(token.children) : token.children[c].type = "list_item_open"

\* what C10 says of one step of a call
C10_Step ==
    /\ pc' = "threw" <=>
          /\ Len(tokens') = Len(tokens) + 1
          /\ OpensListItem(tokens'[Len(tokens')])
          /\ context.listStack = <<>>
    /\ pc' = "threw" => result' = <<>>
    /\ pc' = "done" => result' = ReturnValue(context')

\* C10: a call raises MarkdownConversionError exactly at a list_item_open token processed
\* while the list stack is empty, and then returns no request; in every other state of
\* the token loop, whatever the order of the tokens processed, the call can end and return
C10_RaisesOnlyOnItemOutsideList ==
    /\ [][C10_Step]_vars
    /\ [](pc = "threw" => result = <<>> /\ ~ENABLED Return)
    /\ [](pc = "run" => ENABLED Return)

\* a call that raised, at a list_item_open met outside every list, after an insertion
C10_WitnessRaised ==
    /\ pc = "threw"
    /\ context.insertRequests # <<>>
    /\ Len(tokens) >= 2

\* ---- the shape of the token stream processed

Indexes == [i \in 1..Len(tokens) |-> i]
IsListOpenAt(i) == tokens[i].type \in {"bullet_list_open", "ordered_list_open"}
IsItemOpenAt(i) == tokens[i].type = "list_item_open"
IsTextAt(i) == tokens[i].type \in {"text", "code_inline"}

\* the places of the list_item_open tokens, and the tokens of the n-th item
ItemOpens == SelectSeq(Indexes, IsItemOpenAt)
ItemEnd(n) == IF n < Len(ItemOpens) THEN ItemOpens[n + 1] ELSE Len(tokens) + 1
IsInItem(n, i) == ItemOpens[n] < i /\ i < ItemEnd(n)
TextsOfItem(n) == SelectSeq(Indexes, LAMBDA i : IsInItem(n, i) /\ IsTextAt(i))

\* the document is one list whose items hold one paragraph of text each
OneSimpleList ==
    /\ tokens # <<>>
    /\ \A i \in 1..Len(tokens) : IsListOpenAt(i) <=> i = 1
    /\ \A i \in 1..(Len(tokens) - 1) :
          /\ IsItemOpenAt(i) => tokens[i + 1].type = "paragraph_open"
          /\ tokens[i].type = "paragraph_close" => tokens[i + 1].type = "list_item_close"
    /\ \A i \in 1..Len(tokens) : IsTextAt(i) => tokens[i].content # <<>>
    /\ Len(ItemOpens) = Len(Items)

SamePreset == \A i, j \in 1..Len(Items) : Items[i].bulletPreset = Items[j].bulletPreset

\* ---- the task prefix, as the claims word it

HasTaskPrefix(content) ==
    /\ Len(content) >= 4
    /\ content[1] = "["
    /\ content[2] \in {SP, "x", "X"}
    /\ content[3] = "]"
    /\ IsWhitespace(content[4])

\* the place where the prefix and the whitespace after it end
PrefixEnd(content) ==
    CHOOSE n \in 4..Len(content) :
        /\ \A i \in 4..n : IsWhitespace(content[i])
        /\ n = Len(content) \/ ~IsWhitespace(content[n + 1])

AfterPrefix(content) == SubSeq(content, PrefixEnd(content) + 1, Len(content))

\* whether the paragraph of the n-th item leaves text once the prefix is removed
LeavesText(n) ==
    \E k \in 1..Len(TextsOfItem(n)) :
        LET content == tokens[TextsOfItem(n)[k]].content
        IN k > 1 \/ ~HasTaskPrefix(content) \/ AfterPrefix(content) # <<>>

OneBulletOverAllItems ==
    /\ Len(Bullets) = 1
    /\ Bullets[1].range.startIndex = Items[1].startIndex
    /\ IsSome(Items[Len(Items)].endIndex)
    /\ Bullets[1].range.endIndex = Get(Items[Len(Items)].endIndex)
    /\ Bullets[1].bulletPreset = Items[1].bulletPreset

\* C5 as claimed: a document that is one list of items of one paragraph of non-empty text
\* each, all of one preset at the end, gives one bullet request, from the start of the
\* first item to the end of the last
C5_OneListOneBullet ==
    pc = "done" /\ OneSimpleList /\ SamePreset => OneBulletOverAllItems

\* C5 as amended: the same of the lists whose paragraphs leave text once a task prefix is
\* removed from their first token
C5_OneListWithTextOneBullet ==
    (/\ pc = "done"
     /\ OneSimpleList
     /\ SamePreset
     /\ \A n \in 1..Len(Items) : LeavesText(n)) => OneBulletOverAllItems

\* a list of two items, one of them a task whose text follows the prefix
C5_Witness ==
    /\ pc = "done"
    /\ OneSimpleList
    /\ SamePreset
    /\ Len(Items) = 2
    /\ \A n \in 1..Len(Items) : LeavesText(n)
    /\ \E n \in 1..Len(Items) : HasTaskPrefix(tokens[TextsOfItem(n)[1]].content)
    /\ OneBulletOverAllItems
    /\ Bullets[1].range.endIndex > Bullets[1].range.startIndex + 2

\* ---- task lists

\* the preset the list kind gives the items of the list opened last
LastListOpen ==
    CHOOSE i \in 1..Len(tokens) :
        IsListOpenAt(i) /\ \A j \in (i + 1)..Len(tokens) : ~IsListOpenAt(j)
KindPreset ==
    IF tokens[LastListOpen].type = "ordered_list_open"
    THEN "NUMBERED_DECIMAL_ALPHA_ROMAN"
    ELSE "BULLET_DISC_CIRCLE_SQUARE"

\* whether a text contains [x] or [ ]
ContainsBox(text) ==
    \E p \in 1..(Len(text) - 2) : text[p] = "[" /\ text[p + 1] \in {"x", SP} /\ text[p + 2] = "]"

TextsInserted(requests) == [i \in 1..Len(requests) |-> requests[i].text]

\* the first token of type text of the n-th item, 0 when it has none
FirstTextOfItem(n) ==
    LET texts == SelectSeq(TextsOfItem(n), LAMBDA i : tokens[i].type = "text")
    IN IF texts = <<>> THEN 0 ELSE texts[1]

C9_Step ==
    LET token == tokens'[Len(tokens')]
        open == context.openListItemStack[Len(context.openListItemStack)]
        first == \A i \in (ItemOpens[Len(ItemOpens)] + 1)..Len(tokens) :
                     ~(IsTextAt(i) /\ tokens[i].content # <<>>)
        added == TextsInserted(SubSeq(context'.insertRequests,
                                      Len(context.insertRequests) + 1,
                                      Len(context'.insertRequests)))
    IN (/\ Len(tokens') = Len(tokens) + 1
        /\ token.type \in {"text", "code_inline"}
        /\ token.content # <<>>
        /\ context.openListItemStack # <<>>)
       => IF first /\ HasTaskPrefix(token.content)
          THEN /\ Items'[open].bulletPreset = "BULLET_CHECKBOX"
               /\ added = IF AfterPrefix(token.content) = <<>>
                          THEN <<>>
                          ELSE <<AfterPrefix(token.content)>>
          ELSE /\ Items'[open].bulletPreset =
                      IF first THEN KindPreset ELSE Items[open].bulletPreset
               /\ added = <<token.content>>

\* whether the paragraph of the n-th item is one text token, a task prefix and text after it
IsTaskWithText(n) ==
    /\ Len(TextsOfItem(n)) = 1
    /\ tokens[TextsOfItem(n)[1]].type = "text"
    /\ HasTaskPrefix(tokens[TextsOfItem(n)[1]].content)
    /\ AfterPrefix(tokens[TextsOfItem(n)[1]].content) # <<>>

\* what the amended C9 says of a document that is one list of such items
C9_Final ==
    (/\ pc = "done"
     /\ OneSimpleList
     /\ \A n \in 1..Len(Items) : IsTaskWithText(n))
    => /\ Len(Bullets) = 1
       /\ Bullets[1].bulletPreset = "BULLET_CHECKBOX"
       /\ \A n \in 1..Len(Items) :
             /\ Inserts[2 * n - 1].text = AfterPrefix(tokens[TextsOfItem(n)[1]].content)
             /\ Inserts[2 * n].text = <<NL>>
       /\ Len(Inserts) = 2 * Len(Items)

ClosingTypes ==
    {"strong_close", "em_close", "s_close", "link_close", "bullet_list_close",
     "ordered_list_close", "list_item_close", "heading_close", "paragraph_close"}

\* the type of the opening token of a closing one: x_close closes x_open
OpenOf(closeType) ==
    CASE closeType = "strong_close" -> "strong_open"
      [] closeType = "em_close" -> "em_open"
      [] closeType = "s_close" -> "s_open"
      [] closeType = "link_close" -> "link_open"
      [] closeType = "bullet_list_close" -> "bullet_list_open"
      [] closeType = "ordered_list_close" -> "ordered_list_open"
      [] closeType = "list_item_close" -> "list_item_open"
      [] closeType = "heading_close" -> "heading_open"
      [] closeType = "paragraph_close" -> "paragraph_open"

IsOrHolds(token, type) ==
    \/ token.type = type
    \/ \E c \in 1..Len(token.children) : token.children[c].type = type

\* how many opening tokens of a closing type are pending after the first n tokens, an
\* unmatched closing token closing nothing
RECURSIVE Pending(_, _)
Pending(closeType, n) ==
    IF n = 0
    THEN 0
    ELSE LET rest == Pending(closeType, n - 1)
         IN IF IsOrHolds(tokens[n], OpenOf(closeType)) THEN rest + 1
            ELSE IF tokens[n].type = closeType /\ rest > 0 THEN rest - 1
            ELSE rest

\* whether the step processes a closing token of one of the types with no opening pending
ClosesUnmatched(types) ==
    /\ Len(tokens') = Len(tokens) + 1
    /\ tokens'[Len(tokens')].type \in types
    /\ Pending(tokens'[Len(tokens')].type, Len(tokens)) = 0

\* C11: a closing token processed while no opening token of its kind is pending leaves the
\* whole context as it is (no request, the cursor, the stacks and every recorded range
\* unchanged) and raises no error
C11_UnmatchedCloseIsNoOp ==
    [][ClosesUnmatched(ClosingTypes) => context' = context /\ pc' = "run"]_vars

\* ---- streams with and without InsertText

InsertsOf(requests) == SelectSeq(requests, LAMBDA request : request.kind = "insertText")

\* C12 as claimed: a call that returns after one token or more returns an InsertText
C12_NonEmptyStreamInserts ==
    pc = "done" /\ tokens # <<>> => InsertsOf(result) # <<>>

\* whether the stream holds a block that is closed or stands alone: the end of a paragraph,
\* a horizontal rule, a code block, the end of a heading or of a list item that was opened
HoldsBlock ==
    \E i \in 1..Len(tokens) :
        \/ tokens[i].type \in {"paragraph_close", "hr", "fence", "code_block"}
        \/ /\ tokens[i].type \in {"heading_close", "list_item_close"}
           /\ Pending(tokens[i].type, i - 1) > 0

\* C12 as amended: a call that returns after a stream that holds such a block returns an
\* InsertText; a stream of tokens that are passed over returns none
C12_BlockStreamInserts ==
    pc = "done" =>
        /\ HoldsBlock => InsertsOf(result) # <<>>
        /\ (\A i \in 1..Len(tokens) :
               tokens[i].type \in {"table_open", "td_close", "blockquote_open", "html_block"})
           => result = <<>>

\* a stream of a passed-over token, a heading opened and closed: the newline of the heading
C12_Witness ==
    /\ pc = "done"
    /\ \E i \in 1..Len(tokens) : tokens[i].type = "blockquote_open"
    /\ \E i \in 1..Len(tokens) : tokens[i].type = "heading_close" /\ Pending("heading_close", i - 1) > 0
    /\ Len(InsertsOf(result)) = 1

\* C13: a call with empty markdown or markdown of whitespace only returns the empty list,
\* without a step of the token loop, whatever the startIndex, the tabId and the options
C13_BlankMarkdownReturnsNothing ==
    (\A i \in 1..Len(markdown) : IsWhitespace(markdown[i])) =>
        /\ pc \in {"call", "done"}
        /\ result = <<>>
        /\ tokens = <<>>
        /\ context.insertRequests = <<>> /\ context.formatRequests = <<>>

\* a call with markdown of whitespace only that returned, with a startIndex, a tabId and
\* the title option set
C13_Witness ==
    /\ pc = "done"
    /\ markdown = Blanks
    /\ startIndex = 4
    /\ context.tabId = Some("t1")
    /\ context.firstHeadingAsTitle
    /\ result = <<>>

\* the tabId a request carries, None when it carries none
TabIdOf(request) ==
    IF request.kind = "insertText" THEN request.location.tabId ELSE request.range.tabId

\* C14: every request of a call carries the tabId passed to the call, an InsertText in its
\* location and every other request in its range, and carries none when none was passed
C14_RequestsCarryTheTabId ==
    /\ \A i \in 1..Len(Inserts) : Inserts[i].location.tabId = context.tabId
    /\ \A i \in 1..Len(result) : TabIdOf(result[i]) = context.tabId

\* a call for a named tab that returned requests of all kinds
C14_Witness ==
    /\ pc = "done"
    /\ context.tabId = Some("t1")
    /\ \E i \in 1..Len(result) : result[i].kind = "insertText"
    /\ \E i \in 1..Len(result) : IsTextStyle(result[i])
    /\ \E i \in 1..Len(result) : IsHeadingStyle(result[i])
    /\ \E i \in 1..Len(result) : IsBorder(result[i])
    /\ \E i \in 1..Len(result) : IsBullet(result[i])

\* ---- the reverse renderer

\* the elements the loop of docsJsonToMarkdown has read
ElementsRead == IF pc \in {"render", "rendered"} /\ HasContent(docData)
                THEN Content(docData)
                ELSE <<>>

IsParagraphAt(i) == IsSome(ElementsRead[i].paragraph)
ParagraphAt(i) == Get(ElementsRead[i].paragraph)
RunsOf(paragraph) ==
    LET elements == IF IsSome(paragraph.elements) THEN Get(paragraph.elements) ELSE <<>>
    IN [i \in 1..Len(elements) |-> Get(elements[i].textRun)]

Wrapped(left, text, right) == left \o text \o right

\* the reference function of the claim: the markers around the content c of a styled run
C18_Markers(style, c) ==
    LET codeFont == IsSome(style.weightedFontFamily) /\
                    Get(style.weightedFontFamily).fontFamily \in
                        {"Roboto Mono", "Courier New", "Consolas", "monospace"}
        inner == IF style.bold /\ style.italic THEN Wrapped(<<"*", "*", "*">>, c, <<"*", "*", "*">>)
                 ELSE IF style.bold THEN Wrapped(<<"*", "*">>, c, <<"*", "*">>)
                 ELSE IF style.italic THEN Wrapped(<<"*">>, c, <<"*">>)
                 ELSE c
        struck == IF style.strikethrough THEN Wrapped(<<"~", "~">>, inner, <<"~", "~">>)
                  ELSE inner
        underlined == IF style.underline /\ style.link = None
                      THEN Wrapped(<<"<", "u", ">">>, struck, <<"<", "/", "u", ">">>)
                      ELSE struck
        hasUrl == style.link # None /\ Get(style.link).url # None
    IN IF codeFont THEN Wrapped(<<BACKTICK>>, c, <<BACKTICK>>)
       ELSE IF hasUrl
       THEN Wrapped(<<"[">>, underlined, <<"]", "(">> \o Get(Get(style.link).url) \o <<")">>)
       ELSE underlined

C18_Reference(run) ==
    LET text == IF run.content = None THEN <<>> ELSE Get(run.content)
        detached == text # <<>> /\ text[Len(text)] = NL
        c == IF detached THEN SubSeq(text, 1, Len(text) - 1) ELSE text
    IN IF run.textStyle = None \/ c = <<>> THEN text
       ELSE C18_Markers(Get(run.textStyle), c) \o (IF detached THEN <<NL>> ELSE <<>>)

\* C18: the output of a run is the reference function of its content and style: backticks
\* alone for a code font; otherwise the emphasis markers innermost, then the tildes of a
\* strikethrough, then the underline tag if the run is underlined and has no link, then
\* the link construct outermost; the detached newline comes after the markers, and a
\* styled run whose content is empty or only a newline yields its raw text.  The
\* paragraph of one run appends that output, trimmed, and a blank line.
C18_RunsRenderAsTheReference ==
    \A i \in 1..Len(ElementsRead) :
        IsParagraphAt(i) =>
            \A k \in 1..Len(RunsOf(ParagraphAt(i))) :
                LET run == RunsOf(ParagraphAt(i))[k]
                    reference == C18_Reference(run)
                IN /\ convertTextRun(run) = reference
                   /\ Len(RunsOf(ParagraphAt(i))) = 1 /\ ParagraphAt(i) \in RunParagraphs =>
                         pieces[i] = IF Trim(reference) # <<>>
                                     THEN Trim(reference) \o <<NL, NL>>
                                     ELSE <<NL>>

\* a bold, italic, struck and underlined run with a link was rendered and returned
C18_Witness ==
    /\ pc = "rendered"
    /\ Len(ElementsRead) = 1
    /\ LET run == RunsOf(ParagraphAt(1))[1]
       IN /\ run.textStyle = Some(TextStyle(TRUE, TRUE, TRUE, TRUE,
                                            Some([url |-> Some(<<"u">>)]), None))
          /\ run.content = Some(<<"a", SP, "b", NL>>)
    /\ rendered = <<"[", "~", "~", "*", "*", "*", "a", SP, "b", "*", "*", "*", "~", "~", "]",
                    "(", "u", ")">>

\* ---- rendered list items

\* the text of a paragraph of plain runs, as the document holds it
RECURSIVE Joined(_)
Joined(runs) ==
    IF runs = <<>> THEN <<>>
    ELSE (IF Head(runs).content = None THEN <<>> ELSE Get(Head(runs).content))
         \o Joined(Tail(runs))
PlainText(paragraph) == Trim(Joined(RunsOf(paragraph)))

HasHeadingStyle(paragraph) ==
    /\ paragraph.paragraphStyle # None
    /\ Get(paragraph.paragraphStyle).namedStyleType \notin {None, Some(NORMAL_TEXT)}

\* a paragraph with a bullet, text and no heading style
IsListItemAt(i) ==
    /\ IsParagraphAt(i)
    /\ ParagraphAt(i).bullet # None
    /\ ~HasHeadingStyle(ParagraphAt(i))
    /\ PlainText(ParagraphAt(i)) # <<>>

\* the marker of a rendered list line: what stands between the indent and the space
Marker(line) ==
    LET rest == TrimStart(line)
    IN IF Len(rest) >= 2 /\ rest[1] = "1" /\ rest[2] = "." THEN "ordered"
       ELSE IF Len(rest) >= 1 /\ rest[1] = "-" THEN "unordered"
       ELSE "none"

\* the descriptor the registry holds for the bullet's list at the bullet's level, if any
DescriptorOf(bullet, registry) ==
    LET level == IF bullet.nestingLevel = None THEN 0 ELSE Get(bullet.nestingLevel)
        hasList == registry # None /\ bullet.listId # None /\
                   Get(bullet.listId) \in DOMAIN Get(registry)
        entry == Get(registry)[Get(bullet.listId)]
        levels == Get(Get(entry.listProperties).nestingLevels)
    IN IF hasList /\ entry.listProperties # None /\ level + 1 <= Len(levels)
       THEN Some(levels[level + 1])
       ELSE None

\* the registry entry specifies a non-empty glyph type at the level of the bullet
SpecifiesGlyphType(bullet, registry) ==
    LET descriptor == DescriptorOf(bullet, registry)
    IN /\ descriptor # None
       /\ Get(descriptor).glyphType \notin {None, Some("")}

IsOrderedItem(bullet, registry) ==
    /\ SpecifiesGlyphType(bullet, registry)
    /\ Get(DescriptorOf(bullet, registry)).glyphType # Some("GLYPH_TYPE_UNSPECIFIED")

\* the line of the claim: the indent, the marker, one space and the trimmed text
ListLine(paragraph, registry) ==
    LET bullet == Get(paragraph.bullet)
        nestingLevel == IF bullet.nestingLevel = None THEN 0 ELSE Get(bullet.nestingLevel)
    IN [k \in 1..(2 * nestingLevel) |-> SP]
       \o (IF IsOrderedItem(bullet, registry) THEN <<"1", ".">> ELSE <<"-">>)
       \o <<SP>> \o PlainText(paragraph)

LinesOf(text) == {SplitLines(text)[k] : k \in 1..Len(SplitLines(text))}

\* C17: every bulleted paragraph with text and no heading style appears in the rendered
\* output as one line made of 2 x nestingLevel spaces, the marker `1.` or `-`, one space
\* and the trimmed text, wherever the paragraph stands in the document, the first block
\* included
C17_ListLinesInOutput ==
    pc = "rendered" =>
        \A i \in 1..Len(ElementsRead) :
            IsListItemAt(i) => ListLine(ParagraphAt(i), docData.lists) \in LinesOf(rendered)

\* ---- rendered headings

\* L of the claim: 1 for TITLE, 2 for SUBTITLE, min(N, 6) for HEADING_N, 0 for no
\* heading style
HeadingHashes(paragraph) ==
    LET name == Get(paragraph.paragraphStyle).namedStyleType
    IN IF name = Some(TITLE) THEN 1
       ELSE IF name = Some(SUBTITLE) THEN 2
       ELSE IF \E n \in 1..9 : name = Some(HEADING_ \o <<Digits[n + 1]>>)
       THEN LET n == CHOOSE n \in 1..9 : name = Some(HEADING_ \o <<Digits[n + 1]>>)
            IN IF n < 6 THEN n ELSE 6
       ELSE 0

\* the text of the paragraph as the runs render it, trimmed: the runs offered are plain
\* or bold
RenderedText(paragraph) ==
    LET run == RunsOf(paragraph)[1]
        text == Trim(Get(run.content))
    IN IF run.textStyle = None \/ text = <<>> THEN text
       ELSE <<"*", "*">> \o text \o <<"*", "*">>

StartsWithHash(text) == text # <<>> /\ text[1] = "#"

\* C19: a paragraph of style TITLE, SUBTITLE or HEADING_N with text renders as L `#`
\* characters, a space and the trimmed text, L being 1, 2 and min(N, 6), whether or not
\* the paragraph bears a bullet, and the output holds that line; such a paragraph
\* without text is not rendered with a `#`
C19_HeadingsRenderWithHashes ==
    \A i \in 1..Len(ElementsRead) :
        IsParagraphAt(i) /\ HeadingHashes(ParagraphAt(i)) > 0 =>
            LET text == RenderedText(ParagraphAt(i))
                line == [k \in 1..HeadingHashes(ParagraphAt(i)) |-> "#"] \o <<SP>> \o text
            IN IF text # <<>>
               THEN /\ pieces[i] = line \o <<NL, NL>>
                    /\ pc = "rendered" => line \in LinesOf(rendered)
               ELSE /\ ~StartsWithHash(pieces[i])
                    /\ pieces[i] = <<NL>>

\* a bulleted paragraph of style HEADING_7 was rendered with six hashes, after a title
\* without text that was rendered without any
C19_Witness ==
    /\ pc = "rendered"
    /\ Len(ElementsRead) = 2
    /\ ParagraphAt(1) = Paragraph(Some(<<PlainRun(<<SP, NL>>)>>), Some(TITLE), None)
    /\ ParagraphAt(2) = Paragraph(Some(<<PlainRun(<<"a", SP, "b", NL>>)>>), Some(HEADING(7)),
                                  Some(Bullet(Some("numbers"), Some(1))))
    /\ rendered = <<"#", "#", "#", "#", "#", "#", SP, "a", SP, "b">>

\* ---- rendered tables

IsTableAt(i) == ElementsRead[i].table # None
RowsOf(table) == IF table.tableRows = None THEN <<>> ELSE Get(table.tableRows)

\* the line of a row: `|`, then ` <cell text> |` for every cell
RECURSIVE RowLine(_)
RowLine(cells) ==
    IF cells = <<>> THEN <<"|">>
    ELSE RowLine(SubSeq(cells, 1, Len(cells) - 1))
         \o <<SP>> \o extractCellText(cells[Len(cells)]) \o <<SP, "|">>

\* the separator line of n cells
SeparatorLine(n) ==
    <<"|">> \o [k \in 1..(6 * n) |-> <<SP, "-", "-", "-", SP, "|">>[((k - 1) % 6) + 1]]

\* the lines of the claim: the first row, the separator, then the other rows in order
TableLines(table) ==
    LET rows == RowsOf(table)
    IN [k \in 1..(Len(rows) + 1) |->
           IF k = 1 THEN RowLine(Get(rows[1].tableCells))
           ELSE IF k = 2 THEN SeparatorLine(Len(Get(rows[1].tableCells)))
           ELSE RowLine(Get(rows[k - 1].tableCells))]

\* the lines of a text that are not empty, in order
RECURSIVE NonEmpty(_)
NonEmpty(lines) ==
    IF lines = <<>> THEN <<>>
    ELSE (IF Head(lines) = <<>> THEN <<>> ELSE <<Head(lines)>>) \o NonEmpty(Tail(lines))

\* C20: a table renders as one line per row, in row order, each `|` followed by
\* ` <cell text> |` for every cell of the row, with one separator line of ` --- |` cells
\* right after the first row, of as many cells as the first row; the output holds these
\* lines; a table with no rows renders as nothing
C20_TablesRenderAsPipeLines ==
    \A i \in 1..Len(ElementsRead) :
        IsTableAt(i) =>
            LET table == Get(ElementsRead[i].table)
            IN IF RowsOf(table) = <<>>
               THEN pieces[i] = <<>>
               ELSE /\ NonEmpty(SplitLines(pieces[i])) = TableLines(table)
                    /\ pc = "rendered" =>
                          \A k \in 1..Len(TableLines(table)) :
                              TableLines(table)[k] \in LinesOf(rendered)

\* a table of three rows of two cells, none and two was rendered after a table without
\* rows: three row lines, and one separator of two cells after the first
C20_Witness ==
    /\ pc = "rendered"
    /\ Len(ElementsRead) = 2
    /\ IsTableAt(1) /\ RowsOf(Get(ElementsRead[1].table)) = <<>>
    /\ IsTableAt(2) /\ Len(RowsOf(Get(ElementsRead[2].table))) = 3
    /\ SplitLines(rendered) =
          << <<"|", SP, "a", SP, "|", SP, "b", SP, "c", "d", SP, "|">>,
             <<"|", SP, "-", "-", "-", SP, "|", SP, "-", "-", "-", SP, "|">>,
             <<"|">>,
             <<"|", SP, "a", SP, "|", SP, "b", SP, "c", "d", SP, "|">> >>

\* ---- the round trip

\* the places of the literal text of the input: <<i, 0>> for the i-th token where it
\* bears text itself, <<i, j>> for the j-th child of an inline token
TextPlaces ==
    {<<i, 0>> : i \in {k \in 1..Len(tokens) :
                          tokens[k].type \in {"text", "code_inline", "fence", "code_block"}}}
    \cup {pl \in (1..Len(tokens)) \X (1..4) :
             /\ tokens[pl[1]].type = "inline"
             /\ pl[2] <= Len(tokens[pl[1]].children)
             /\ tokens[pl[1]].children[pl[2]].type \in {"text", "code_inline"}}
TokenAt(pl) == IF pl[2] = 0 THEN tokens[pl[1]] ELSE tokens[pl[1]].children[pl[2]]
ComesBefore(p, q) == p[1] < q[1] \/ (p[1] = q[1] /\ p[2] < q[2])

CountOf(type, from, to) == Cardinality({k \in from..to : tokens[k].type = type})
\* the list item that is open and innermost at the i-th token: the place of its
\* list_item_open, 0 where no item is open
CurrentItem(i) ==
    LET open == {k \in 1..(i - 1) :
                    /\ tokens[k].type = "list_item_open"
                    /\ CountOf("list_item_open", k + 1, i - 1)
                           = CountOf("list_item_close", k + 1, i - 1)}
    IN IF open = {} THEN 0 ELSE CHOOSE k \in open : \A m \in open : m <= k

\* the text or inline code that is the first of its list item: the compiler takes a
\* task prefix from it
IsFirstOfItem(pl) ==
    /\ TokenAt(pl).type \in {"text", "code_inline"}
    /\ CurrentItem(pl[1]) # 0
    /\ \A q \in TextPlaces :
          TokenAt(q).type \in {"text", "code_inline"} /\ ComesBefore(q, pl)
              => CurrentItem(q[1]) # CurrentItem(pl[1])

\* the text of a place without the task prefix that the compiler consumed
TextKept(pl) ==
    LET content == TokenAt(pl).content
    IN IF IsFirstOfItem(pl)
       THEN SubSeq(content, TaskPrefixMatch(content) + 1, Len(content))
       ELSE content

\* the runs of non-whitespace text of a text: its longest stretches without whitespace
RunsOfText(text) ==
    {SubSeq(text, i, j) : <<i, j>> \in
        {r \in (1..Len(text)) \X (1..Len(text)) :
            /\ r[1] <= r[2]
            /\ \A k \in r[1]..r[2] : ~IsWhitespace(text[k])
            /\ r[1] = 1 \/ IsWhitespace(text[r[1] - 1])
            /\ r[2] = Len(text) \/ IsWhitespace(text[r[2] + 1])}}

\* the run stands in the text, its characters side by side
ContainsRun(text, run) ==
    \E k \in 0..(Len(text) - Len(run)) : SubSeq(text, k + 1, k + Len(run)) = run

\* C15 as stated: the markup rendered from the document that the compiled requests make
\* of an empty document contains every run of non-whitespace text of the texts of the
\* input
C15_RoundTripKeepsEveryRun ==
    pc = "rendered" =>
        \A pl \in TextPlaces :
            \A run \in RunsOfText(TokenAt(pl).content) : ContainsRun(rendered, run)

\* C15 amended: the rendered markup contains every run of non-whitespace text of the
\* texts of the input but for the task prefix that the compiler consumed from the first
\* text of a list item
C15_RoundTripKeepsInsertedRuns ==
    pc = "rendered" =>
        \A pl \in TextPlaces :
            \A run \in RunsOfText(TextKept(pl)) : ContainsRun(rendered, run)

\* a list item of a task and a paragraph of bold and plain text made the round trip: the
\* task prefix is gone, the texts stand in the markup
C15_Witness ==
    /\ pc = "rendered"
    /\ \E pl \in TextPlaces : IsFirstOfItem(pl) /\ TaskPrefixMatch(TokenAt(pl).content) > 0
    /\ ContainsRun(rendered, <<"-", SP, "c">>)
    /\ ~ContainsRun(rendered, <<"[", "x", "]">>)
    /\ ContainsRun(rendered, <<"*", "*", "d", "*", "*", "e">>)

\* ---- the formatting stack

\* the attribute a closing token of inline formatting names
AttributeClosed(type) ==
    CASE type = "strong_close" -> "bold"
      [] type = "em_close" -> "italic"
      [] type = "s_close" -> "strikethrough"
      [] type = "link_close" -> "link"

Carries(entry, attribute) == entry[attribute] # None

\* whether `after` is `before` without its i-th entry
IsWithout(before, i, after) ==
    /\ Len(after) = Len(before) - 1
    /\ \A j \in 1..Len(after) : after[j] = IF j < i THEN before[j] ELSE before[j + 1]

\* what C21 says of the step that processes a closing token
C21_Step ==
    LET token == tokens'[Len(tokens')]
        before == context.formattingStack
        after == context'.formattingStack
    IN (/\ Len(tokens') = Len(tokens) + 1
        /\ token.type \in {"strong_close", "em_close", "s_close", "link_close"})
       => LET attribute == AttributeClosed(token.type)
          IN IF \E i \in 1..Len(before) : Carries(before[i], attribute)
             THEN \E i \in 1..Len(before) :
                     /\ Carries(before[i], attribute)
                     /\ \A j \in (i + 1)..Len(before) : ~Carries(before[j], attribute)
                     /\ IsWithout(before, i, after)
             ELSE after = before

\* C21: a strong/em/s/link close removes exactly one entry of the formatting stack, the
\* most recently pushed one that carries the attribute, also when it is not the top; the
\* other entries keep their order; when no entry carries the attribute the stack is left
\* as it was
C21_CloseRemovesLatestCarrier == [][C21_Step]_vars

\* a close of bold met under italic and strikethrough: the bottom entry went, the two
\* above it kept their order
C21_Witness ==
    /\ Len(tokens) = 4
    /\ tokens[1].type = "strong_open"
    /\ tokens[2].type = "em_open"
    /\ tokens[3].type = "s_open"
    /\ tokens[4].type = "strong_close"
    /\ context.formattingStack = <<Fmt("italic", TRUE), Fmt("strikethrough", TRUE)>>

\* ---- the emission of text

Attributes == {"bold", "italic", "strikethrough", "link", "code"}

\* the value of an attribute in force: that of the entry pushed last among its carriers
InForce(stack, attribute) ==
    IF \E i \in 1..Len(stack) : Carries(stack[i], attribute)
    THEN LET i == CHOOSE j \in 1..Len(stack) :
                      /\ Carries(stack[j], attribute)
                      /\ \A k \in (j + 1)..Len(stack) : ~Carries(stack[k], attribute)
         IN stack[i][attribute]
    ELSE None

AnyInForce(stack) == \E attribute \in Attributes : InForce(stack, attribute) # None

\* the insert requests and the text ranges a step added
InsertsAdded ==
    SubSeq(context'.insertRequests, Len(context.insertRequests) + 1,
           Len(context'.insertRequests))
RangesAdded ==
    SubSeq(context'.textRanges, Len(context.textRanges) + 1, Len(context'.textRanges))

\* whether a step leaves the text ranges recorded before it as they were
KeepsRanges ==
    /\ Len(context'.textRanges) >= Len(context.textRanges)
    /\ SubSeq(context'.textRanges, 1, Len(context.textRanges)) = context.textRanges

\* the one range a step recorded: over the text it inserted, with the formatting in force
RecordsTheRange(text) ==
    /\ Len(RangesAdded) = 1
    /\ RangesAdded[1].startIndex = context.currentIndex
    /\ RangesAdded[1].endIndex = context'.currentIndex
    /\ RangesAdded[1].endIndex = RangesAdded[1].startIndex + Len(text)
    /\ \A attribute \in Attributes :
          RangesAdded[1].formatting[attribute] = InForce(context.formattingStack, attribute)

\* what a step that processes a text token of this content does when it emits this text
EmitsText(text) ==
    /\ Len(InsertsAdded) = 1
    /\ InsertsAdded[1].text = text
    /\ InsertsAdded[1].location.index = context.currentIndex
    /\ IF AnyInForce(context.formattingStack)
       THEN RecordsTheRange(text)
       ELSE RangesAdded = <<>>

\* what a step that processes a softbreak or a hardbreak does
EmitsBreak(token) ==
    /\ Len(InsertsAdded) = 1
    /\ InsertsAdded[1].text = IF token.type = "softbreak" THEN <<SP>> ELSE <<NL>>
    /\ RangesAdded = <<>>
    /\ context'.formattingStack = context.formattingStack

\* the text-style requests returned are those of the text ranges recorded
StylesOnlyOfRanges ==
    pc = "done" =>
        \A r \in 1..Len(result) :
            IsTextStyle(result[r]) =>
                \E t \in 1..Len(context.textRanges) :
                    /\ result[r].range.startIndex = context.textRanges[t].startIndex
                    /\ result[r].range.endIndex = context.textRanges[t].endIndex

\* what C22 says of one step
C22_Step ==
    LET token == tokens'[Len(tokens')]
    IN /\ KeepsRanges
       /\ Len(tokens') = Len(tokens) + 1 =>
             /\ token.type = "text" /\ token.content # <<>> => EmitsText(token.content)
             /\ token.type \in {"softbreak", "hardbreak"} => EmitsBreak(token)

\* C22 as stated: a text token of non-empty content records a text range exactly when an
\* attribute is in force; the range is [cursor before, cursor after) with the formatting
\* merged at that moment, later pushes and pops leave it alone; text met with an empty
\* stack, softbreaks and hardbreaks insert and give no text-style request
C22_TextRecordsRangeIffFormatted ==
    /\ [][C22_Step]_vars
    /\ []StylesOnlyOfRanges

\* whether the step examines its text token for a task prefix
ExaminesPrefix ==
    /\ context.openListItemStack # <<>>
    /\ ~context.pendingListItems[context.openListItemStack[
            Len(context.openListItemStack)]].taskPrefixProcessed

\* what the amended C22 says of one step
C22_StepOfTextToInsert ==
    LET token == tokens'[Len(tokens')]
        text == IF ExaminesPrefix /\ HasTaskPrefix(token.content)
                THEN AfterPrefix(token.content)
                ELSE token.content
    IN /\ KeepsRanges
       /\ Len(tokens') = Len(tokens) + 1 =>
             /\ token.type = "text" /\ token.content # <<>> =>
                   IF text = <<>>
                   THEN InsertsAdded = <<>> /\ RangesAdded = <<>>
                   ELSE EmitsText(text)
             /\ token.type \in {"softbreak", "hardbreak"} => EmitsBreak(token)

\* C22 as amended: the text to insert is the content of the token, without the task prefix
\* when the token is the first text of a list item and begins with one; when nothing is
\* left the token inserts nothing and records nothing, otherwise it inserts the text at
\* the cursor and records a range exactly when an attribute is in force, over [cursor
\* before, cursor after) with the formatting merged at that moment, which later pushes and
\* pops leave alone; softbreaks and hardbreaks insert one space or one newline and record
\* nothing; the text-style requests returned are those of the recorded ranges
C22_TextToInsertRecordsRangeIffFormatted ==
    /\ [][C22_StepOfTextToInsert]_vars
    /\ []StylesOnlyOfRanges

\* a text inside two links, recorded with the link opened last, and a pop after it
C22_Witness ==
    /\ Len(tokens) = 4
    /\ tokens[1].type = "link_open" /\ tokens[1].href = Some("u")
    /\ tokens[2].type = "link_open" /\ tokens[2].href = Some("v")
    /\ tokens[3].type = "text"
    /\ tokens[4].type = "strong_close"
    /\ Len(context.textRanges) = 1
    /\ context.textRanges[1].formatting.link = Some("v")
    /\ context.textRanges[1].startIndex = 1
    /\ context.textRanges[1].endIndex = 2

\* ---- inline code

\* what C23 says of the step that processes a code_inline token of non-empty content
C23_Step ==
    LET token == tokens'[Len(tokens')]
    IN (/\ Len(tokens') = Len(tokens) + 1
        /\ token.type = "code_inline"
        /\ token.content # <<>>)
       => /\ Len(InsertsAdded) = 1
          /\ InsertsAdded[1].text = token.content
          /\ InsertsAdded[1].location.index = context.currentIndex
          /\ Len(RangesAdded) = 1
          /\ RangesAdded[1].startIndex = context.currentIndex
          /\ RangesAdded[1].endIndex = context.currentIndex + Len(token.content)
          /\ RangesAdded[1].formatting.code = Some(TRUE)
          /\ context'.formattingStack = context.formattingStack

\* C23: every code_inline token of non-empty content inserts its whole content at the
\* cursor and records one code-styled range over exactly that content, also as the first
\* inline token of a list item with a content that begins like a checkbox; the formatting
\* stack after the token is the stack before it
C23_CodeInlineInsertsItsContent == [][C23_Step]_vars

\* ---- list nesting

\* what C24 says of the step that processes a list-open or a list_item_open token
C24_Step ==
    LET token == tokens'[Len(tokens')]
        depth == Len(context.listStack)
    IN Len(tokens') = Len(tokens) + 1 =>
          /\ token.type \in {"bullet_list_open", "ordered_list_open"} =>
                /\ Len(context'.listStack) = depth + 1
                /\ SubSeq(context'.listStack, 1, depth) = context.listStack
                /\ context'.listStack[depth + 1].level = depth
                /\ context'.listStack[depth + 1].type =
                      IF token.type = "ordered_list_open" THEN "ordered" ELSE "bullet"
          /\ (token.type = "list_item_open" /\ depth > 0) =>
                LET innermost == context.listStack[depth]
                    n == innermost.level
                    items == context'.pendingListItems
                IN /\ Len(items) = Len(context.pendingListItems) + 1
                   /\ SubSeq(items, 1, Len(context.pendingListItems)) =
                         context.pendingListItems
                   /\ items[Len(items)].nestingLevel = n
                   /\ items[Len(items)].startIndex = context.currentIndex
                   /\ items[Len(items)].bulletPreset =
                         IF innermost.type = "ordered"
                         THEN "NUMBERED_DECIMAL_ALPHA_ROMAN"
                         ELSE "BULLET_DISC_CIRCLE_SQUARE"
                   /\ IF n >= 1
                      THEN /\ Len(InsertsAdded) = 1
                           /\ InsertsAdded[1].text = [i \in 1..n |-> TAB]
                           /\ InsertsAdded[1].location.index = context.currentIndex
                      ELSE InsertsAdded = <<>>

\* C24: a list-open token pushes an entry whose level is the depth of the list stack
\* before the push; a list_item_open in a list of level n records a pending item of
\* nestingLevel n that starts at the cursor before any indent, with the preset of the kind
\* of the innermost open list, and inserts n tabs as one insertion at that start when
\* n >= 1, nothing when n = 0
C24_ItemsNestByTheInnermostList == [][C24_Step]_vars

\* an item of an ordered list inside an item of a bullet list
C24_Witness ==
    /\ pc = "run"
    /\ Len(context.listStack) = 2
    /\ context.listStack[1].type = "bullet" /\ context.listStack[2].type = "ordered"
    /\ tokens[Len(tokens)].type = "list_item_open"
    /\ Len(context.pendingListItems) = 2
    /\ context.pendingListItems[2].nestingLevel = 1
    /\ context.pendingListItems[2].bulletPreset = "NUMBERED_DECIMAL_ALPHA_ROMAN"
    /\ context.pendingListItems[2].startIndex > context.pendingListItems[1].startIndex
    /\ Inserts[Len(Inserts)].text = <<TAB>>
    /\ Inserts[Len(Inserts)].location.index = context.pendingListItems[2].startIndex

\* ---- horizontal rules

\* the text of the document as the inserts made so far leave it, and its character at an
\* offset (the inserts are made one after the other, each at the end of the one before)
RECURSIVE TextOf(_)
TextOf(requests) ==
    IF requests = <<>> THEN <<>> ELSE Head(requests).text \o TextOf(Tail(requests))
InsertedAt(ctx, offset) == TextOf(ctx.insertRequests)[offset - startIndex + 1]
IsInserted(ctx, offset) ==
    offset >= startIndex /\ offset < startIndex + Len(TextOf(ctx.insertRequests))

\* the hr tokens processed so far
RuleTokens == {i \in 1..Len(tokens) : tokens[i].type = "hr"}

\* what C25 says of one step
C25_Step ==
    LET token == tokens'[Len(tokens')]
        before == context.hrRanges
        after == context'.hrRanges
    IN Len(tokens') = Len(tokens) + 1 =>
          /\ token.type = "hr" =>
                /\ Len(after) = Len(before) + 1
                /\ SubSeq(after, 1, Len(before)) = before
                /\ LET range == after[Len(after)]
                   IN /\ range.endIndex = range.startIndex + 1
                      \* the newline it covers is the one this token inserted last
                      /\ InsertsAdded # <<>>
                      /\ InsertsAdded[Len(InsertsAdded)].text = <<NL>>
                      /\ InsertsAdded[Len(InsertsAdded)].location.index = range.startIndex
                      /\ InsertedAt(context', range.startIndex) = NL
                      \* a newline stands before it, inserted now if there was none
                      /\ IsInserted(context', range.startIndex - 1)
                      /\ InsertedAt(context', range.startIndex - 1) = NL
                      /\ Len(InsertsAdded) =
                            IF /\ Inserts # <<>>
                               /\ Inserts[Len(Inserts)].text[Len(Inserts[Len(Inserts)].text)] = NL
                            THEN 1 ELSE 2
                      \* what was inserted before the rule lies below its range
                      /\ \A i \in 1..Len(Inserts) :
                            Inserts[i].location.index + Len(Inserts[i].text) <= range.startIndex
          /\ token.type # "hr" => after = before
          \* what is inserted after a rule lies at or above the end of its range
          /\ \A i \in 1..Len(InsertsAdded), r \in 1..Len(before) :
                InsertsAdded[i].location.index >= before[r].endIndex

\* the border requests returned, in order
Borders == SelectSeq(result, IsBorder)

\* what C25 says of the requests returned
C25_Final ==
    pc = "done" =>
        /\ Len(Borders) = Cardinality(RuleTokens)
        /\ Len(Borders) = Len(context.hrRanges)
        /\ \A b \in 1..Len(Borders) :
              /\ Borders[b].range.startIndex = context.hrRanges[b].startIndex
              /\ Borders[b].range.endIndex = context.hrRanges[b].endIndex
              /\ Borders[b].paragraphStyle.borderBottom.dashStyle = "SOLID"
              /\ Borders[b].paragraphStyle.borderBottom.width = <<1, "PT">>

\* C25: each hr token records exactly one hrRanges entry, of length 1, over a newline that
\* the token inserted; the character before that range is a newline, inserted first when
\* the previous insertion does not end with one; the call returns exactly one bottom-border
\* (solid, 1 PT) paragraph-style request per hr token; every text inserted before the hr
\* lies below the start of the range, every text inserted after it at or above its end
C25_RuleIsOneNewlineAfterANewline ==
    /\ [][C25_Step]_vars
    /\ []C25_Final

\* two rules, the first after a paragraph, the second inside a list item after text
C25_Witness ==
    /\ pc = "done"
    /\ Cardinality(RuleTokens) = 2
    /\ Len(Borders) = 2
    /\ \E i \in 1..Len(Inserts) :
          /\ Inserts[i].text = Letters
          /\ Inserts[i].location.index < context.hrRanges[1].startIndex
    /\ \E i \in 1..Len(Inserts) :
          /\ Inserts[i].text = Letters
          /\ Inserts[i].location.index >= context.hrRanges[1].endIndex
          /\ Inserts[i].location.index < context.hrRanges[2].startIndex
    /\ Len(context.pendingListItems) = 1

\* ---- code blocks

\* the content of a code block without one trailing newline
WithoutOneNewline(content) ==
    IF content # <<>> /\ content[Len(content)] = NL
    THEN SubSeq(content, 1, Len(content) - 1)
    ELSE content

\* the places of the newlines of a text, in order, and the j-th of the lines they part
NewlinePlaces(text) == SelectSeq([i \in 1..Len(text) |-> i], LAMBDA i : text[i] = NL)
LineCount(text) == Len(NewlinePlaces(text)) + 1
LineOf(text, j) ==
    LET places == NewlinePlaces(text)
        from == IF j = 1 THEN 1 ELSE places[j - 1] + 1
        to == IF j > Len(places) THEN Len(text) ELSE places[j] - 1
    IN SubSeq(text, from, to)

\* the text a code block inserts for a line
TextForLine(line) == IF line = <<>> THEN <<SP>> ELSE line

\* what C26 says of the step that processes a fence or code_block token
C26_Step ==
    LET token == tokens'[Len(tokens')]
        content == WithoutOneNewline(token.content)
        k == LineCount(content)
        all == TextOf(context'.insertRequests)
    IN (/\ Len(tokens') = Len(tokens) + 1
        /\ token.type \in {"fence", "code_block"})
       => /\ k >= 1
          /\ Len(RangesAdded) = k
          /\ Len(InsertsAdded) = 2 * k + 1
          /\ \A j \in 1..k :
                LET text == TextForLine(LineOf(content, j))
                    inserted == InsertsAdded[2 * j - 1]
                    range == RangesAdded[j]
                IN /\ inserted.text = text
                   /\ range.startIndex = inserted.location.index
                   /\ range.endIndex = range.startIndex + Len(text)
                   /\ range.endIndex > range.startIndex
                   /\ \A c \in 1..Len(text) : text[c] # NL
                   /\ range.formatting.code = Some(TRUE)
                   /\ InsertsAdded[2 * j].text = <<NL>>
                   /\ InsertsAdded[2 * j].location.index = range.endIndex
          /\ InsertsAdded[1].location.index = context.currentIndex
          /\ SubSeq(all, Len(all) - 1, Len(all)) = <<NL, NL>>
          /\ KeepsRanges

\* C26: a fence or code_block token whose content, one trailing newline removed, has k
\* lines (an empty content being one empty line) records exactly k code-styled ranges,
\* one per line in order, each over exactly the text inserted for its line (the line, or
\* one space for an empty line), without a newline and never of length zero; a newline is
\* inserted after each line, and after the block the inserted text ends with two newlines
C26_OneCodeRangePerLine == [][C26_Step]_vars

\* a block of three lines, the second of them empty
C26_Witness ==
    /\ Len(tokens) = 1
    /\ tokens[1].type = "fence"
    /\ tokens[1].content = <<"a", NL, NL, "b", NL>>
    /\ Len(context.textRanges) = 3
    /\ Len(Inserts) = 7
    /\ Inserts[3].text = <<SP>>
    /\ context.textRanges[2].startIndex = Inserts[3].location.index
    /\ context.textRanges[2].endIndex = context.textRanges[2].startIndex + 1
    /\ Inserts[6].text = <<NL>> /\ Inserts[7].text = <<NL>>

\* ---- the text of table cells

\* the contents of all text runs of all paragraphs of a cell, one after the other
RECURSIVE RunContentsOf(_)
RunContentsOf(elements) ==
    IF elements = <<>> THEN <<>>
    ELSE (IF IsSome(Head(elements).textRun) /\ IsSome(Get(Head(elements).textRun).content)
          THEN Get(Get(Head(elements).textRun).content)
          ELSE <<>>)
         \o RunContentsOf(Tail(elements))

RECURSIVE CellContents(_)
CellContents(content) ==
    IF content = <<>> THEN <<>>
    ELSE (IF IsSome(Head(content).paragraph) /\ IsSome(Get(Head(content).paragraph).elements)
          THEN RunContentsOf(Get(Get(Head(content).paragraph).elements))
          ELSE <<>>)
         \o CellContents(Tail(content))

\* the cell text of the claim: newlines made spaces, trimmed at the two ends of the cell
CellTextTrimmedAtEnds(cell) ==
    IF cell.content = None THEN <<>>
    ELSE LET all == CellContents(Get(cell.content))
         IN Trim([i \in 1..Len(all) |-> IF all[i] = NL THEN SP ELSE all[i]])

RECURSIVE RowLineOfCells(_)
RowLineOfCells(cells) ==
    IF cells = <<>> THEN <<"|">>
    ELSE RowLineOfCells(SubSeq(cells, 1, Len(cells) - 1))
         \o <<SP>> \o CellTextTrimmedAtEnds(cells[Len(cells)]) \o <<SP, "|">>

\* C27: the text rendered for a table cell is the concatenation, in order, of all text
\* runs of all paragraphs of the cell, every newline replaced by a space, trimmed only at
\* the two ends of the cell: the whitespace between adjacent runs is kept
C27_CellTextTrimmedAtEndsOnly ==
    \A i \in 1..Len(ElementsRead) :
        (IsTableAt(i) /\ RowsOf(Get(ElementsRead[i].table)) # <<>>) =>
            LET rows == RowsOf(Get(ElementsRead[i].table))
                lines == NonEmpty(SplitLines(pieces[i]))
            IN /\ Len(lines) = Len(rows) + 1
               /\ \A r \in 1..Len(rows) :
                     lines[IF r = 1 THEN 1 ELSE r + 1] =
                         RowLineOfCells(Get(rows[r].tableCells))

\* ---- the bullet ranges of one call

\* whether two requests range over a common offset
Overlap(a, b) ==
    a.range.startIndex < b.range.endIndex /\ b.range.startIndex < a.range.endIndex

\* C28: the bullet ranges returned by one call are pairwise disjoint: no offset belongs to
\* two CreateParagraphBullets ranges, whatever well-nested stream was compiled
C28_BulletRangesDisjoint ==
    pc = "done" =>
        \A i, j \in 1..Len(Bullets) : i # j => ~Overlap(Bullets[i], Bullets[j])

\* ---- list items and their bullets

\* whether the end of a pending item was resolved past its start
HasContentRange(item) == item.endIndex # None /\ Get(item.endIndex) > item.startIndex

\* whether a bullet request covers an item with the preset of the item
Covers(bullet, item) ==
    /\ bullet.bulletPreset = item.bulletPreset
    /\ bullet.range.startIndex <= item.startIndex
    /\ Get(item.endIndex) <= bullet.range.endIndex

\* C29: every pending item whose end was resolved past its start lies inside a returned
\* CreateParagraphBullets range of the final preset of the item; items whose end was not
\* resolved, or not past the start, contribute to no range: every returned range starts
\* where an item with a resolved end of that preset starts and ends where one ends
C29_ItemsWithContentAreBulleted ==
    pc = "done" =>
        /\ \A n \in 1..Len(Items) :
              HasContentRange(Items[n]) =>
                  \E b \in 1..Len(Bullets) : Covers(Bullets[b], Items[n])
        /\ \A b \in 1..Len(Bullets) :
              /\ \E n \in 1..Len(Items) :
                    /\ HasContentRange(Items[n])
                    /\ Items[n].bulletPreset = Bullets[b].bulletPreset
                    /\ Items[n].startIndex = Bullets[b].range.startIndex
              /\ \E n \in 1..Len(Items) :
                    /\ HasContentRange(Items[n])
                    /\ Items[n].bulletPreset = Bullets[b].bulletPreset
                    /\ Get(Items[n].endIndex) = Bullets[b].range.endIndex

\* a task item and an item of the list kind with content, and an item without any: two
\* bullet requests for three items
C29_Witness ==
    /\ pc = "done"
    /\ Len(Items) = 3
    /\ \E n \in 1..3 : HasContentRange(Items[n]) /\ Items[n].bulletPreset = "BULLET_CHECKBOX"
    /\ \E n \in 1..3 : HasContentRange(Items[n]) /\ Items[n].bulletPreset # "BULLET_CHECKBOX"
    /\ \E n \in 1..3 : ~HasContentRange(Items[n])
    /\ Len(Bullets) = 2

\* ---- the separation of blocks

\* a paragraph with text, without bullet and without heading style
IsPlainParagraphAt(i) ==
    /\ IsParagraphAt(i)
    /\ ParagraphAt(i).bullet = None
    /\ ~HasHeadingStyle(ParagraphAt(i))
    /\ PlainText(ParagraphAt(i)) # <<>>

\* whether a line of the text is the list line and the line right after it the paragraph
FollowsDirectly(text, listLine, paragraphText) ==
    LET lines == SplitLines(text)
    IN \E k \in 1..(Len(lines) - 1) :
          /\ TrimStart(lines[k]) = TrimStart(listLine)
          /\ lines[k + 1] = paragraphText

\* C30: in the rendered markup a plain paragraph with text that directly follows a
\* bulleted paragraph is parted from the list line by at least one blank line: what the
\* loop appended for the bulleted paragraph ends with an empty line, and in the output the
\* text of the paragraph does not stand on the line right after the list line
C30_BlankLineAfterListItem ==
    \A i \in 1..(Len(ElementsRead) - 1) :
        (IsListItemAt(i) /\ IsPlainParagraphAt(i + 1)) =>
            /\ EndsWith(pieces[i], <<NL, NL>>)
            /\ pc = "rendered" =>
                  ~FollowsDirectly(rendered, ListLine(ParagraphAt(i), docData.lists),
                                   PlainText(ParagraphAt(i + 1)))

====
